---- MODULE Spec2Model ----
(***************************************************************************)
(* Model of the game core of double-webapp: Board (board.ts), Piece and    *)
(* PIECE_SHAPES (piece.ts) and Game (game.ts, the first, timer-aware       *)
(* version of the class).                                                  *)
(*                                                                         *)
(* Time: update(now) is called with now >= clock and moves the clock to    *)
(* now.  performance.now(), which the game reads by itself when it spawns  *)
(* a piece or schedules a batch, is clock + skew: in Spec it equals the    *)
(* timestamp of the call (skew = 0), in SpecSkew it may have run ahead.    *)
(***************************************************************************)
EXTENDS Integers, Sequences, FiniteSets, TLC

(* ---------------------------------------------------------------------- *)
(* board.ts: constants                                                     *)
(* ---------------------------------------------------------------------- *)
CELL_EMPTY == 0
CELL_LU == 1
CELL_LO == 2
CELL_RO == 3
CELL_RU == 4
CELL_WG == 5
CELL_SK == 6

DIR_UP == 0
DIR_DOWN == 1
DIR_LEFT == 2
DIR_RIGHT == 3

BoardWidth == 10
BoardHeight == 20

(* game.ts: timer and animation settings *)
timerDuration == 10000
interval == 150

(* ---------------------------------------------------------------------- *)
(* Bounds of the exploration                                               *)
(* ---------------------------------------------------------------------- *)
\* the draws of spawnPiece with an anchor in 0..MaxSpawnX x 0..MaxSpawnY are
\* free of cost, see FollowedDraws
MaxSpawnX == 0
MaxSpawnY == 0
\* the player only issues moves whose target anchor is at most (WinX, WinY)
WinX == 1
WinY == 0
\* the cost of the call sequences explored, see Cost
MaxCost == 4
\* a drag leaves the anchor at a multiple of 1/Den of a cell
Den == 2
\* the number of fingers followed on the canvas at a time
MaxFingers == 2
\* where a finger comes down next to the one already on the canvas, in units
\* of 1/Den of a cell: on it, or one unit below
FingerSet == {<<0, 0>>, <<0, 1>>}
\* the cost of one touchstart event, see Cost
TouchCost == 1
\* the cost of one touchmove event, see Cost
DragCost == 1
\* the cost of a draw of spawnPiece outside FollowedDraws, see Cost
DrawCost == 4
\* the cost of one move to an anchor outside the window of free moves, see Cost
FarCost == 1

\* the draws of spawnPiece of this shape are free of cost: the U-turn piece,
\* whose four variants close a loop in two placements and match their own
\* placed tiles
SpawnShapes == {5}
\* layout.cellSize, the width of a board cell in pixels, of the layout explored
cellSize == 40
\* elapsed times between the clock and the timestamp handed to update, or the
\* time at which startGame is called
DtSet == {0, interval, timerDuration}
\* by how much performance.now() may exceed the timestamp update() was given
MaxSkew == 1
SkewSet == 0..MaxSkew
\* player moves (keyboard: one cell in one direction)
MoveSet == {<<-1, 0>>, <<1, 0>>, <<0, 1>>, <<0, -1>>}
\* the travel of the finger between two touch events followed, in units of
\* 1/Den of a cell (cellSize / Den pixels): one unit in one direction
DragSet == {<<-1, 0>>, <<1, 0>>, <<0, 1>>, <<0, -1>>}

Min(a, b) == IF a < b THEN a ELSE b
Max(a, b) == IF a > b THEN a ELSE b

\* the least and the greatest element of a set of numbers
Least(Q) == CHOOSE a \in Q : \A b \in Q : a <= b
Greatest(Q) == CHOOSE a \in Q : \A b \in Q : a >= b

(* ---------------------------------------------------------------------- *)
(* piece.ts: PIECE_SHAPES, [rotation][x][y]                                *)
(* ---------------------------------------------------------------------- *)
PIECE_SHAPES ==
  << \* Small corner (lu)
     << << <<CELL_LO>>, <<CELL_EMPTY>>, <<CELL_EMPTY>> >>,
        << <<CELL_RO>>, <<CELL_EMPTY>>, <<CELL_EMPTY>> >>,
        << <<CELL_RU>>, <<CELL_EMPTY>>, <<CELL_EMPTY>> >>,
        << <<CELL_LU>>, <<CELL_EMPTY>>, <<CELL_EMPTY>> >> >>,
     \* Short straight
     << << <<CELL_SK>>, <<CELL_EMPTY>>, <<CELL_EMPTY>> >>,
        << <<CELL_WG>>, <<CELL_EMPTY>>, <<CELL_EMPTY>> >> >>,
     \* Long straight
     << << <<CELL_SK, CELL_SK>>, <<CELL_EMPTY, CELL_EMPTY>>, <<CELL_EMPTY, CELL_EMPTY>> >>,
        << <<CELL_WG, CELL_EMPTY>>, <<CELL_WG, CELL_EMPTY>>, <<CELL_EMPTY, CELL_EMPTY>> >> >>,
     \* S-piece 1
     << << <<CELL_LU, CELL_EMPTY>>, <<CELL_RO, CELL_EMPTY>>, <<CELL_EMPTY, CELL_EMPTY>> >>,
        << <<CELL_LO, CELL_RU>>, <<CELL_EMPTY, CELL_EMPTY>>, <<CELL_EMPTY, CELL_EMPTY>> >> >>,
     \* S-piece 2
     << << <<CELL_LO, CELL_EMPTY>>, <<CELL_RU, CELL_EMPTY>>, <<CELL_EMPTY, CELL_EMPTY>> >>,
        << <<CELL_RO, CELL_LU>>, <<CELL_EMPTY, CELL_EMPTY>>, <<CELL_EMPTY, CELL_EMPTY>> >> >>,
     \* U-turn piece
     << << <<CELL_LO, CELL_EMPTY>>, <<CELL_RO, CELL_EMPTY>>, <<CELL_EMPTY, CELL_EMPTY>> >>,
        << <<CELL_RO, CELL_RU>>, <<CELL_EMPTY, CELL_EMPTY>>, <<CELL_EMPTY, CELL_EMPTY>> >>,
        << <<CELL_LU, CELL_EMPTY>>, <<CELL_RU, CELL_EMPTY>>, <<CELL_EMPTY, CELL_EMPTY>> >>,
        << <<CELL_LO, CELL_LU>>, <<CELL_EMPTY, CELL_EMPTY>>, <<CELL_EMPTY, CELL_EMPTY>> >> >>,
     \* Noname piece 1
     << << <<CELL_LO, CELL_EMPTY>>, <<CELL_WG, CELL_EMPTY>>, <<CELL_EMPTY, CELL_EMPTY>> >>,
        << <<CELL_RO, CELL_SK>>, <<CELL_EMPTY, CELL_EMPTY>>, <<CELL_EMPTY, CELL_EMPTY>> >>,
        << <<CELL_WG, CELL_RU>>, <<CELL_EMPTY, CELL_EMPTY>>, <<CELL_EMPTY, CELL_EMPTY>> >>,
        << <<CELL_SK, CELL_LU>>, <<CELL_EMPTY, CELL_EMPTY>>, <<CELL_EMPTY, CELL_EMPTY>> >> >>,
     \* Noname piece 2
     << << <<CELL_LU, CELL_EMPTY>>, <<CELL_WG, CELL_EMPTY>>, <<CELL_EMPTY, CELL_EMPTY>> >>,
        << <<CELL_LO, CELL_SK>>, <<CELL_EMPTY, CELL_EMPTY>>, <<CELL_EMPTY, CELL_EMPTY>> >>,
        << <<CELL_WG, CELL_RO>>, <<CELL_EMPTY, CELL_EMPTY>>, <<CELL_EMPTY, CELL_EMPTY>> >>,
        << <<CELL_SK, CELL_RU>>, <<CELL_EMPTY, CELL_EMPTY>>, <<CELL_EMPTY, CELL_EMPTY>> >> >>,
     \* Honeynut Loop
     << << <<CELL_LO, CELL_LU>>, <<CELL_RO, CELL_RU>>, <<CELL_EMPTY, CELL_EMPTY>> >> >>,
     \* Wulst
     << << <<CELL_LO, CELL_RU>>, <<CELL_RO, CELL_LU>>, <<CELL_EMPTY, CELL_EMPTY>> >>,
        << <<CELL_LU, CELL_LO>>, <<CELL_RO, CELL_RU>>, <<CELL_EMPTY, CELL_EMPTY>> >>,
        << <<CELL_RO, CELL_LU>>, <<CELL_LO, CELL_RU>>, <<CELL_EMPTY, CELL_EMPTY>> >>,
        << <<CELL_LO, CELL_LU>>, <<CELL_RU, CELL_RO>>, <<CELL_EMPTY, CELL_EMPTY>> >> >>,
     \* Graffl
     << << <<CELL_LO, CELL_SK, CELL_LU>>, <<CELL_WG, CELL_EMPTY, CELL_EMPTY>>, <<CELL_RO, CELL_EMPTY, CELL_EMPTY>> >>,
        << <<CELL_LO, CELL_EMPTY, CELL_EMPTY>>, <<CELL_WG, CELL_EMPTY, CELL_EMPTY>>, <<CELL_RO, CELL_SK, CELL_RU>> >>,
        << <<CELL_EMPTY, CELL_EMPTY, CELL_LU>>, <<CELL_EMPTY, CELL_EMPTY, CELL_WG>>, <<CELL_RO, CELL_SK, CELL_RU>> >>,
        << <<CELL_LO, CELL_SK, CELL_LU>>, <<CELL_EMPTY, CELL_EMPTY, CELL_WG>>, <<CELL_EMPTY, CELL_EMPTY, CELL_RU>> >> >>,
     \* Large corner
     << << <<CELL_LO, CELL_SK>>, <<CELL_WG, CELL_EMPTY>>, <<CELL_EMPTY, CELL_EMPTY>> >>,
        << <<CELL_WG, CELL_EMPTY>>, <<CELL_RO, CELL_SK>>, <<CELL_EMPTY, CELL_EMPTY>> >>,
        << <<CELL_EMPTY, CELL_WG>>, <<CELL_SK, CELL_RU>>, <<CELL_EMPTY, CELL_EMPTY>> >>,
        << <<CELL_SK, CELL_LU>>, <<CELL_EMPTY, CELL_WG>>, <<CELL_EMPTY, CELL_EMPTY>> >> >>
  >>

(* ---------------------------------------------------------------------- *)
(* board.ts: Board                                                         *)
(* ---------------------------------------------------------------------- *)
\* Board.reset / Board constructor: grid[y][x], every cell CELL_EMPTY
EmptyGrid == [y \in 0..(BoardHeight - 1) |-> [x \in 0..(BoardWidth - 1) |-> CELL_EMPTY]]

\* Board.setCell
setCell(g, x, y, value) == [g EXCEPT ![y][x] = value]

InBounds(x, y) == x >= 0 /\ x < BoardWidth /\ y >= 0 /\ y < BoardHeight

\* portsFor: the set of directions a cell value connects through
\* a port table in which the kinds RO and RU have changed places
portsFor_Swapped(cell) ==
  CASE cell = CELL_LU -> {DIR_RIGHT, DIR_UP}
    [] cell = CELL_LO -> {DIR_RIGHT, DIR_DOWN}
    [] cell = CELL_RO -> {DIR_LEFT, DIR_UP}
    [] cell = CELL_RU -> {DIR_LEFT, DIR_DOWN}
    [] cell = CELL_WG -> {DIR_LEFT, DIR_RIGHT}
    [] cell = CELL_SK -> {DIR_UP, DIR_DOWN}
    [] OTHER -> {}

\* portsFor of detectLoop: the ports of a tile kind
portsFor(cell) ==
  CASE cell = CELL_LU -> {DIR_RIGHT, DIR_UP}
    [] cell = CELL_LO -> {DIR_RIGHT, DIR_DOWN}
    [] cell = CELL_RO -> {DIR_LEFT, DIR_DOWN}
    [] cell = CELL_RU -> {DIR_LEFT, DIR_UP}
    [] cell = CELL_WG -> {DIR_LEFT, DIR_RIGHT}
    [] cell = CELL_SK -> {DIR_UP, DIR_DOWN}
    [] OTHER -> {}

dirToDelta(d) ==
  CASE d = DIR_UP -> [dx |-> 0, dy |-> -1]
    [] d = DIR_DOWN -> [dx |-> 0, dy |-> 1]
    [] d = DIR_LEFT -> [dx |-> -1, dy |-> 0]
    [] OTHER -> [dx |-> 1, dy |-> 0]

opposite(d) ==
  IF d = DIR_UP THEN DIR_DOWN
  ELSE IF d = DIR_DOWN THEN DIR_UP
  ELSE IF d = DIR_LEFT THEN DIR_RIGHT
  ELSE DIR_LEFT

Coord(x, y) == [x |-> x, y |-> y]

\* a connection test that does not ask the neighbour for the opposite port
ConnectsTo_OneWay(g, cx, cy, d) ==
  LET mx == cx + dirToDelta(d).dx
      my == cy + dirToDelta(d).dy
  IN /\ d \in portsFor(g[cy][cx])
     /\ InBounds(mx, my)
     /\ g[my][mx] # CELL_EMPTY

\* the test both loops of detectLoop apply to the cell in direction d of (cx, cy):
\* own port, in bounds, not empty, opposite port
ConnectsTo(g, cx, cy, d) ==
  LET mx == cx + dirToDelta(d).dx
      my == cy + dirToDelta(d).dy
  IN /\ d \in portsFor(g[cy][cx])
     /\ InBounds(mx, my)
     /\ g[my][mx] # CELL_EMPTY
     /\ opposite(d) \in portsFor(g[my][mx])

\* the inner for-loop of the BFS over dd = d..3 for the dequeued node cur;
\* st = [q, visited, parent, found, predecessor]
RECURSIVE BfsScan(_, _, _, _, _, _)
BfsScan(g, start, n, cur, dd, st) ==
  IF dd > 3 THEN st
  ELSE
    LET m == Coord(cur.x + dirToDelta(dd).dx, cur.y + dirToDelta(dd).dy) IN
    IF ~ConnectsTo(g, cur.x, cur.y, dd) THEN BfsScan(g, start, n, cur, dd + 1, st)
    ELSE IF cur = n /\ m = start THEN BfsScan(g, start, n, cur, dd + 1, st)
    ELSE IF m \in st.visited THEN BfsScan(g, start, n, cur, dd + 1, st)
    ELSE
      LET st1 == [st EXCEPT !.visited = @ \cup {m}, !.parent = (m :> cur) @@ @] IN
      IF m = start
        THEN [st1 EXCEPT !.found = TRUE, !.predecessor = cur]
        ELSE BfsScan(g, start, n, cur, dd + 1, [st1 EXCEPT !.q = Append(@, m)])

\* while (q.length > 0 && !found)
RECURSIVE BfsLoop(_, _, _, _)
BfsLoop(g, start, n, st) ==
  IF Len(st.q) = 0 \/ st.found THEN st
  ELSE BfsLoop(g, start, n,
               BfsScan(g, start, n, Head(st.q), 0, [st EXCEPT !.q = Tail(@)]))

\* chain from predecessor back to the neighbour n along parent
RECURSIVE Chain(_, _, _)
Chain(parent, n, cur2) ==
  IF cur2 = n THEN <<cur2>>
  ELSE IF cur2 \notin DOMAIN parent THEN <<cur2>>
  ELSE <<cur2>> \o Chain(parent, n, parent[cur2])

\* an outer loop that tries the start's ports in the order Right, Left, Down, Up
RECURSIVE DetectFrom_Reverse(_, _, _, _)
DetectFrom_Reverse(g, x, y, d) ==
  IF d > 3 THEN <<>>
  ELSE IF ~ConnectsTo(g, x, y, 3 - d) THEN DetectFrom_Reverse(g, x, y, d + 1)
  ELSE
    LET n == Coord(x + dirToDelta(3 - d).dx, y + dirToDelta(3 - d).dy)
        st0 == [q |-> <<n>>, visited |-> {n}, parent |-> (n :> Coord(x, y)),
                found |-> FALSE, predecessor |-> n]
        st == BfsLoop(g, Coord(x, y), n, st0)
    IN IF st.found
         THEN <<Coord(x, y)>> \o Chain(st.parent, n, st.predecessor)
         ELSE DetectFrom_Reverse(g, x, y, d + 1)

\* the outer for-loop of detectLoop over d..3; <<>> stands for null
RECURSIVE DetectFrom(_, _, _, _)
DetectFrom(g, x, y, d) ==
  IF d > 3 THEN <<>>
  ELSE IF ~ConnectsTo(g, x, y, d) THEN DetectFrom(g, x, y, d + 1)
  ELSE
    LET n == Coord(x + dirToDelta(d).dx, y + dirToDelta(d).dy)
        st0 == [q |-> <<n>>, visited |-> {n}, parent |-> (n :> Coord(x, y)),
                found |-> FALSE, predecessor |-> n]
        st == BfsLoop(g, Coord(x, y), n, st0)
    IN IF st.found
         THEN <<Coord(x, y)>> \o Chain(st.parent, n, st.predecessor)
         ELSE DetectFrom(g, x, y, d + 1)

\* Board.detectLoop: the coordinates of a loop through (x, y), <<>> for null
detectLoop(g, x, y) ==
  IF g[y][x] = CELL_EMPTY THEN <<>> ELSE DetectFrom(g, x, y, 0)

(* ---------------------------------------------------------------------- *)
(* piece.ts: Piece                                                         *)
(* ---------------------------------------------------------------------- *)
\* The anchor of a piece is a pair of JavaScript numbers. The keyboard and the
\* spawn keep it integral, a drag does not: the anchor is (x + fx/Den,
\* y + fy/Den) with x, y its floor and fx, fy in 0..(Den - 1).
\* currentPiece = null
Null == [shapes |-> -1, rotation |-> 0, x |-> 0, y |-> 0, fx |-> 0, fy |-> 0]

\* new Piece(shapes, x, y); shapes is a reference to the table entry idx
NewPiece(idx, x, y) ==
  [shapes |-> idx, rotation |-> 0, x |-> x, y |-> y, fx |-> 0, fy |-> 0]

\* the anchor in units of 1/Den of a cell
FineX(p) == p.x * Den + p.fx
FineY(p) == p.y * Den + p.fy

\* the piece with its anchor at (X/Den, Y/Den)
AtFine(p, X, Y) == [p EXCEPT !.x = X \div Den, !.fx = X % Den,
                             !.y = Y \div Den, !.fy = Y % Den]

\* the rotation variants the piece refers to (0-based table index)
ShapesOf(table, p) == table[p.shapes + 1]

\* get shape(): shapes[rotation % shapes.length], a matrix [x][y]
ShapeOf(table, p) == ShapesOf(table, p)[(p.rotation % Len(ShapesOf(table, p))) + 1]

\* s[x][y] with the source's 0-based indices
At(s, x, y) == s[x + 1][y + 1]

\* Piece.move
PieceMove(p, dx, dy) == [p EXCEPT !.x = @ + dx, !.y = @ + dy]

\* the matrix built by the else-branch of Piece.rotate
RotatedMatrix(shape) ==
  LET sizeX == Len(shape)
      sizeY == Len(shape[1])
  IN [yy \in 1..sizeY |-> [i \in 1..sizeX |-> shape[sizeX + 1 - i][yy]]]

\* a rotate that counts the rotation index up without wrapping it
PieceRotate_NoWrap(table, p) ==
  IF Len(ShapesOf(table, p)) > 1
    THEN [piece |-> [p EXCEPT !.rotation = @ + 1], table |-> table]
    ELSE [piece |-> p,
          table |-> [table EXCEPT ![p.shapes + 1][1] = RotatedMatrix(@)]]

\* Piece.rotate: the piece and the (shared) shape table after the call
PieceRotate(table, p) ==
  IF Len(ShapesOf(table, p)) > 1
    THEN [piece |-> [p EXCEPT !.rotation = (@ + 1) % Len(ShapesOf(table, p))],
          table |-> table]
    ELSE [piece |-> p,
          table |-> [table EXCEPT ![p.shapes + 1][1] = RotatedMatrix(@)]]

\* the cells (cx, cy) of a matrix in the order of the source's nested loops
\* (x outer, y inner)
LoopCells(s) ==
  LET w == Len(s)
      h == Len(s[1])
  IN [i \in 1..(w * h) |-> [cx |-> (i - 1) \div h, cy |-> (i - 1) % h]]

\* the cells with a truthy (non-empty) tile, in loop order
Occupied(s) == SelectSeq(LoopCells(s), LAMBDA c : At(s, c.cx, c.cy) # CELL_EMPTY)

(* ---------------------------------------------------------------------- *)
(* game.ts: Game                                                           *)
(* ---------------------------------------------------------------------- *)
VARIABLES
  grid,            \* board.grid[y][x]
  shapeTable,      \* PIECE_SHAPES as the running program holds it
  currentPiece,    \* currentPiece / state.currentPiece
  score,           \* state.score
  highScores,      \* state.highScores
  isRunning,       \* state.isRunning
  isGameOver,      \* state.isGameOver
  timerRemaining,  \* state.timerRemaining
  lastTimerTick,   \* lastTimerTick
  loopRemoval,     \* loopRemoval: active, cells, index, lastTime, pointsPerTile
  lrTrace,         \* history of the active batch: grid and score when it was
                   \* scheduled, cells cleared so far, position of the cursor
                   \* when start() last reset the score under it (-1: never)
  placed,          \* history: number of placements written to the grid, from the
                   \* state the exploration begins in
  clock,           \* the timestamp passed to the latest update(now)
  skew,            \* how far performance.now() has run ahead of that timestamp
  waited,          \* history: cost of the update() calls made with no batch active
                   \* and of the touchmove events
  starts,          \* history: number of start() calls, from the state the
                   \* exploration begins in
  probe,           \* the latest detectLoop query made on the board and its answer
  thrown,          \* the latest call ended in an uncaught TypeError
  touches,         \* the fingers on the canvas in the order of e.touches (the
                   \* order they went down in), each at its clientX - startX and
                   \* clientY - startY, in units of cellSize / Den pixels
  moved,           \* mobileControls.ts: moved and dragging, which the handlers
                   \* set together: a touchmove has dragged
  startPieceX,     \* mobileControls.ts: startPieceX, in units of 1/Den
  startPieceY,     \* mobileControls.ts: startPieceY, in units of 1/Den
  framesRequested  \* main.ts: the number of animation frames gameLoop has
                   \* requested and not yet run (one to every startGame whose
                   \* chain of frames has not ended in a TypeError)

gameVars == <<grid, shapeTable, currentPiece, score, highScores, isRunning,
              isGameOver, timerRemaining, lastTimerTick, loopRemoval>>
vars == <<grid, shapeTable, currentPiece, score, highScores, isRunning,
          isGameOver, timerRemaining, lastTimerTick, loopRemoval, lrTrace,
          placed, clock, skew, waited, starts, probe, thrown, touches, moved,
          startPieceX, startPieceY, framesRequested>>
touchVars == <<touches, moved, startPieceX, startPieceY>>

\* the fields of the Game object as one record
Cur ==
  [grid |-> grid, shapeTable |-> shapeTable, currentPiece |-> currentPiece,
   score |-> score, highScores |-> highScores, isRunning |-> isRunning,
   isGameOver |-> isGameOver, timerRemaining |-> timerRemaining,
   lastTimerTick |-> lastTimerTick, loopRemoval |-> loopRemoval,
   lrTrace |-> lrTrace, placed |-> placed, perfNow |-> clock + skew,
   thrown |-> FALSE]

SetGame(S) ==
  /\ grid' = S.grid
  /\ shapeTable' = S.shapeTable
  /\ currentPiece' = S.currentPiece
  /\ score' = S.score
  /\ highScores' = S.highScores
  /\ isRunning' = S.isRunning
  /\ isGameOver' = S.isGameOver
  /\ timerRemaining' = S.timerRemaining
  /\ lastTimerTick' = S.lastTimerTick
  /\ loopRemoval' = S.loopRemoval
  /\ lrTrace' = S.lrTrace
  /\ placed' = S.placed
  /\ thrown' = S.thrown

\* spawnPiece: maxX, maxY, the largest anchor drawn
SpawnMax(boardSize, pieceSize) == boardSize - pieceSize

\* the random draws of one spawnPiece call, Math.floor(Math.random() * n):
\* idx in 0..(PIECE_SHAPES.length - 1), randX in 0..maxX, randY in 0..maxY,
\* rotation in 0..(shape.length - 1)
SpawnDraws(table) ==
  {sp \in [idx : 0..(Len(table) - 1),
           randX : 0..(BoardWidth - 1), randY : 0..(BoardHeight - 1), rotation : 0..3] :
     LET shape == table[sp.idx + 1]
         pieceWidth == Len(shape[1])
         pieceHeight == Len(shape[1][1])
     IN /\ sp.randX <= SpawnMax(BoardWidth, pieceWidth)
        /\ sp.randY <= SpawnMax(BoardHeight, pieceHeight)
        /\ sp.rotation < Len(shape)}

\* the draws the sessions follow: those of SpawnShapes with an anchor within
\* the bounds. Every draw is followed where single calls are explored
\* (HeldPieces, StartAny).
FollowedDraws(table) ==
  {sp \in [idx : SpawnShapes,
           randX : 0..MaxSpawnX, randY : 0..MaxSpawnY, rotation : 0..3] :
     sp \in SpawnDraws(table)}

\* Game.spawnPiece with draws sp at time pnow
spawnPiece(S, sp, pnow) ==
  [S EXCEPT !.currentPiece = [NewPiece(sp.idx, sp.randX, sp.randY) EXCEPT !.rotation = sp.rotation],
            !.timerRemaining = timerDuration,
            !.lastTimerTick = pnow]

\* highScores.sort((a, b) => b - a): insertion of v into a descending list
RECURSIVE InsertDesc(_, _)
InsertDesc(list, v) ==
  IF list = <<>> THEN <<v>>
  ELSE IF v > Head(list) THEN <<v>> \o list
  ELSE <<Head(list)>> \o InsertDesc(Tail(list), v)

\* a high-score list that is cut after eleven entries
saveHighScore_KeepsEleven(S) ==
  LET sorted == InsertDesc(S.highScores, S.score)
  IN [S EXCEPT !.highScores = SubSeq(sorted, 1, Min(Len(sorted), 11))]

\* Game.saveHighScore
saveHighScore(S) ==
  LET sorted == InsertDesc(S.highScores, S.score)
  IN [S EXCEPT !.highScores = SubSeq(sorted, 1, Min(Len(sorted), 10))]

\* Game.end
end(S) == saveHighScore([S EXCEPT !.isRunning = FALSE, !.isGameOver = TRUE])

\* a start that leaves the tiles of the session before on the grid
start_KeepsGrid(S, sp, pnow) ==
  spawnPiece([S EXCEPT !.isRunning = TRUE,
                       !.score = 0,
                       !.isGameOver = FALSE,
                       !.timerRemaining = timerDuration,
                       !.lastTimerTick = pnow,
                       !.lrTrace.resetAt = IF S.loopRemoval.active
                                             THEN S.loopRemoval.index ELSE @],
             sp, pnow)

\* a start that leaves the game-over flag as it is
start_KeepsGameOver(S, sp, pnow) ==
  spawnPiece([S EXCEPT !.isRunning = TRUE, !.score = 0, !.grid = EmptyGrid,
                       !.timerRemaining = timerDuration,
                       !.lastTimerTick = pnow,
                       !.lrTrace.resetAt = IF S.loopRemoval.active
                                             THEN S.loopRemoval.index ELSE @],
             sp, pnow)

\* Game.start at time pnow
start(S, sp, pnow) ==
  spawnPiece([S EXCEPT !.isRunning = TRUE,
                       !.score = 0,
                       !.grid = EmptyGrid,
                       !.isGameOver = FALSE,
                       !.timerRemaining = timerDuration,
                       !.lastTimerTick = pnow,
                       !.lrTrace.resetAt = IF S.loopRemoval.active
                                             THEN S.loopRemoval.index ELSE @],
             sp, pnow)

\* the bounds test of movePiece over the occupied cells
MoveOutOfBounds(s, p, dx, dy) ==
  \E i \in 1..Len(Occupied(s)) :
     LET c == Occupied(s)[i] IN ~InBounds(p.x + c.cx + dx, p.y + c.cy + dy)

\* a move that is also rejected when the moved piece would cover a tile
movePiece_AvoidsTiles(S, dx, dy) ==
  IF S.currentPiece = Null THEN S
  ELSE IF MoveOutOfBounds(ShapeOf(S.shapeTable, S.currentPiece), S.currentPiece, dx, dy) THEN S
  ELSE IF \E i \in 1..Len(Occupied(ShapeOf(S.shapeTable, S.currentPiece))) :
            LET c == Occupied(ShapeOf(S.shapeTable, S.currentPiece))[i]
            IN S.grid[S.currentPiece.y + c.cy + dy][S.currentPiece.x + c.cx + dx] # CELL_EMPTY
         THEN S
  ELSE [S EXCEPT !.currentPiece = PieceMove(@, dx, dy)]

\* Game.movePiece
movePiece(S, dx, dy) ==
  IF S.currentPiece = Null THEN S
  ELSE IF MoveOutOfBounds(ShapeOf(S.shapeTable, S.currentPiece), S.currentPiece, dx, dy) THEN S
  ELSE [S EXCEPT !.currentPiece = PieceMove(@, dx, dy)]

\* a kick list that tries the offset -1 first
kicks_MinusOneFirst == <<-1, 0, 1, -2, 2>>

kicks == <<0, -1, 1, -2, 2>>

\* a rotation that keeps the anchor where it was
rotatePiece_NoClamp(S) ==
  IF S.currentPiece = Null THEN S
  ELSE
    LET r == PieceRotate(S.shapeTable, S.currentPiece)
    IN [S EXCEPT !.shapeTable = r.table, !.currentPiece = r.piece]

\* Game.rotatePiece
rotatePiece(S) ==
  IF S.currentPiece = Null THEN S
  ELSE
    LET old == S.currentPiece
        r == PieceRotate(S.shapeTable, old)
        s == ShapeOf(r.table, r.piece)
        occ == Occupied(s)
    IN IF Len(occ) = 0
         THEN [S EXCEPT !.shapeTable = r.table,
                        !.currentPiece = [r.piece EXCEPT !.rotation = old.rotation]]
         ELSE
           LET cols == {occ[i].cx : i \in 1..Len(occ)}
               rows == {occ[i].cy : i \in 1..Len(occ)}
               minCol == CHOOSE c \in cols : \A d \in cols : c <= d
               maxCol == CHOOSE c \in cols : \A d \in cols : c >= d
               minRow == CHOOSE c \in rows : \A d \in rows : c <= d
               maxRow == CHOOSE c \in rows : \A d \in rows : c >= d
               minXAllowed == -minCol
               maxXAllowed == BoardWidth - 1 - maxCol
               minYAllowed == -minRow
               maxYAllowed == BoardHeight - 1 - maxRow
               \* the anchors in units of 1/Den
               baseX == Min(Max(FineX(r.piece), minXAllowed * Den), maxXAllowed * Den)
               baseY == Min(Max(FineY(r.piece), minYAllowed * Den), maxYAllowed * Den)
               ok(i, j) == ~(\/ baseX + kicks[i] * Den < minXAllowed * Den
                             \/ baseY + kicks[j] * Den < minYAllowed * Den
                             \/ baseX + kicks[i] * Den > maxXAllowed * Den
                             \/ baseY + kicks[j] * Den > maxYAllowed * Den)
               feasible == {ij \in (1..5) \X (1..5) : ok(ij[1], ij[2])}
           IN IF feasible = {}
                THEN [S EXCEPT !.shapeTable = r.table, !.currentPiece = old]
                ELSE
                  LET first == CHOOSE ij \in feasible :
                                 \A kl \in feasible :
                                    \/ ij[1] < kl[1]
                                    \/ (ij[1] = kl[1] /\ ij[2] <= kl[2])
                  IN [S EXCEPT !.shapeTable = r.table,
                               !.currentPiece = AtFine(r.piece,
                                                       baseX + kicks[first[1]] * Den,
                                                       baseY + kicks[first[2]] * Den)]

\* the scan of checkPlacementCollision over the occupied cells from i on: it
\* returns true at the first cell out of bounds or not Empty on the board. The
\* anchor is in bounds by its floor. With a fractional row board.grid[boardY]
\* is undefined and indexing it throws a TypeError (threw); with a fractional
\* column only, board.grid[boardY][boardX] is undefined, which is !== 0.
RECURSIVE CollisionScan(_, _, _, _)
CollisionScan(g, s, p, i) ==
  IF i > Len(Occupied(s)) THEN [collision |-> FALSE, threw |-> FALSE]
  ELSE
    LET c == Occupied(s)[i]
        boardX == p.x + c.cx
        boardY == p.y + c.cy
    IN IF ~InBounds(boardX, boardY) THEN [collision |-> TRUE, threw |-> FALSE]
       ELSE IF p.fy # 0 THEN [collision |-> FALSE, threw |-> TRUE]
       ELSE IF p.fx # 0 \/ g[boardY][boardX] # 0 THEN [collision |-> TRUE, threw |-> FALSE]
       ELSE CollisionScan(g, s, p, i + 1)

\* a collision check that tests the bounds only
checkPlacementCollision_BoundsOnly(g, s, p) ==
  [collision |-> \E i \in 1..Len(Occupied(s)) :
                    LET c == Occupied(s)[i] IN ~InBounds(p.x + c.cx, p.y + c.cy),
   threw |-> FALSE]

\* Game.checkPlacementCollision: the answer (collision), or a TypeError (threw)
checkPlacementCollision(g, s, p) == CollisionScan(g, s, p, 1)

\* the callers' step after the exact-match test: a TypeError of the collision
\* check ends the call, a collision gives Hit, no collision gives Free
AfterCollisionCheck(S, Hit, Free) ==
  LET c == checkPlacementCollision(S.grid, ShapeOf(S.shapeTable, S.currentPiece), S.currentPiece)
  IN IF c.threw THEN [S EXCEPT !.thrown = TRUE]
     ELSE IF c.collision THEN Hit
     ELSE Free

\* the exact-match scan of placePiece and update over the cells from i on:
\* leaves with exactMatch = FALSE at the first cell out of bounds or differing.
\* The anchor is in bounds by its floor (boardX < 0, boardX >= width). With a
\* fractional row board.grid[boardY] is undefined and indexing it throws a
\* TypeError (threw); with a fractional column only, board.grid[boardY][boardX]
\* is undefined, which is !== cellType.
RECURSIVE MatchScan(_, _, _, _, _)
MatchScan(g, s, p, i, nonEmptyCount) ==
  IF i > Len(Occupied(s))
    THEN [exactMatch |-> TRUE, nonEmptyCount |-> nonEmptyCount, threw |-> FALSE]
  ELSE
    LET c == Occupied(s)[i]
        boardX == p.x + c.cx
        boardY == p.y + c.cy
    IN IF ~InBounds(boardX, boardY)
         THEN [exactMatch |-> FALSE, nonEmptyCount |-> nonEmptyCount + 1, threw |-> FALSE]
       ELSE IF p.fy # 0
         THEN [exactMatch |-> FALSE, nonEmptyCount |-> nonEmptyCount + 1, threw |-> TRUE]
       ELSE IF p.fx # 0 \/ g[boardY][boardX] # At(s, c.cx, c.cy)
         THEN [exactMatch |-> FALSE, nonEmptyCount |-> nonEmptyCount + 1, threw |-> FALSE]
       ELSE MatchScan(g, s, p, i + 1, nonEmptyCount + 1)


\* the scan and the test made on its outcome, exactMatch && nonEmptyCount > 0:
\* a scan that ends in a TypeError (threw) ends the call and no test is made
ExactMatchTest(g, s, p) ==
  LET m == MatchScan(g, s, p, 1, 0)
  IN [threw |-> m.threw,
      match |-> ~m.threw /\ m.exactMatch /\ m.nonEmptyCount > 0]

\* const cost = 2 * nonEmptyCount
RemovalCost(g, s, p) == 2 * MatchScan(g, s, p, 1, 0).nonEmptyCount

\* cellsToRemove: the footprint cells in loop order
cellsToRemove(s, p) ==
  [i \in 1..Len(Occupied(s)) |-> Coord(p.x + Occupied(s)[i].cx, p.y + Occupied(s)[i].cy)]

\* history of a batch that is not active
NoTrace == [grid0 |-> EmptyGrid, score0 |-> 0, cleared |-> <<>>, resetAt |-> -1]

\* the scheduling of a removal batch (placePiece and update)
ScheduleRemoval(S, cells, pointsPerTile, pnow) ==
  [S EXCEPT !.loopRemoval = [active |-> TRUE, cells |-> cells, index |-> 0,
                             lastTime |-> pnow, pointsPerTile |-> pointsPerTile],
            !.lrTrace = [grid0 |-> S.grid, score0 |-> S.score, cleared |-> <<>>,
                         resetAt |-> -1]]

\* a paid removal scheduled with the reward of a loop
PaidRemoval_Reward(S, pnow) ==
  [ScheduleRemoval(S, cellsToRemove(ShapeOf(S.shapeTable, S.currentPiece), S.currentPiece),
                   1, pnow)
     EXCEPT !.currentPiece = Null]

\* the paid removal of placePiece and update: schedule, hide the piece
PaidRemoval(S, pnow) ==
  [ScheduleRemoval(S, cellsToRemove(ShapeOf(S.shapeTable, S.currentPiece), S.currentPiece),
                   -2, pnow)
     EXCEPT !.currentPiece = Null]

\* a placing loop that asks for a loop at the first cell it writes only
RECURSIVE WriteCells_FirstCellOnly(_, _, _, _, _)
WriteCells_FirstCellOnly(g, s, p, i, loopCells) ==
  IF i > Len(Occupied(s)) THEN [grid |-> g, loopCells |-> loopCells]
  ELSE
    LET c == Occupied(s)[i]
        boardX == p.x + c.cx
        boardY == p.y + c.cy
    IN IF InBounds(boardX, boardY)
         THEN LET g1 == setCell(g, boardX, boardY, At(s, c.cx, c.cy))
              IN WriteCells_FirstCellOnly(g1, s, p, i + 1,
                   IF i = 1 THEN loopCells \o detectLoop(g1, boardX, boardY) ELSE loopCells)
         ELSE WriteCells_FirstCellOnly(g, s, p, i + 1, loopCells)

\* the placing loop of placePiece over the occupied cells from i on:
\* write the cell, query detectLoop on the grid as written so far
RECURSIVE WriteCells(_, _, _, _, _)
WriteCells(g, s, p, i, loopCells) ==
  IF i > Len(Occupied(s)) THEN [grid |-> g, loopCells |-> loopCells]
  ELSE
    LET c == Occupied(s)[i]
        boardX == p.x + c.cx
        boardY == p.y + c.cy
    IN IF InBounds(boardX, boardY)
         THEN LET g1 == setCell(g, boardX, boardY, At(s, c.cx, c.cy))
              IN WriteCells(g1, s, p, i + 1, loopCells \o detectLoop(g1, boardX, boardY))
         ELSE WriteCells(g, s, p, i + 1, loopCells)

\* deduplication of loopCells, first occurrences in order
RECURSIVE Unique(_, _)
Unique(cells, seen) ==
  IF cells = <<>> THEN <<>>
  ELSE IF Head(cells) \in seen THEN Unique(Tail(cells), seen)
  ELSE <<Head(cells)>> \o Unique(Tail(cells), seen \cup {Head(cells)})

\* a normal placement that leaves the spawn to the end of a batch
NormalPlace_NeverSpawns(S, sp, pnow) ==
  LET w == WriteCells(S.grid, ShapeOf(S.shapeTable, S.currentPiece), S.currentPiece, 1, <<>>)
      S1 == [S EXCEPT !.grid = w.grid, !.currentPiece = Null, !.placed = @ + 1]
  IN IF w.loopCells # <<>>
       THEN ScheduleRemoval(S1, Unique(w.loopCells, {}), 1, pnow)
       ELSE S1

\* the normal placement of placePiece (after the collision check)
NormalPlace(S, sp, pnow) ==
  LET w == WriteCells(S.grid, ShapeOf(S.shapeTable, S.currentPiece), S.currentPiece, 1, <<>>)
      S1 == [S EXCEPT !.grid = w.grid, !.currentPiece = Null, !.placed = @ + 1]
  IN IF w.loopCells # <<>>
       THEN ScheduleRemoval(S1, Unique(w.loopCells, {}), 1, pnow)
       ELSE spawnPiece(S1, sp, pnow)

\* placePiece that ends the session when the placement collides
placePiece_EndsOnCollision(S, sp, pnow) ==
  IF S.currentPiece = Null THEN S
  ELSE
    LET s == ShapeOf(S.shapeTable, S.currentPiece) IN
    LET t == ExactMatchTest(S.grid, s, S.currentPiece) IN
    IF t.threw THEN [S EXCEPT !.thrown = TRUE]
    ELSE IF t.match /\ S.score >= RemovalCost(S.grid, s, S.currentPiece)
      THEN PaidRemoval(S, pnow)
    ELSE AfterCollisionCheck(S, end(S), NormalPlace(S, sp, pnow))

\* Game.placePiece at time pnow; sp are the draws of the spawn it may make
placePiece(S, sp, pnow) ==
  IF S.currentPiece = Null THEN S
  ELSE
    LET s == ShapeOf(S.shapeTable, S.currentPiece) IN
    LET t == ExactMatchTest(S.grid, s, S.currentPiece) IN
    IF t.threw THEN [S EXCEPT !.thrown = TRUE]
    ELSE IF t.match /\ S.score >= RemovalCost(S.grid, s, S.currentPiece)
      THEN PaidRemoval(S, pnow)
    ELSE AfterCollisionCheck(S, S, NormalPlace(S, sp, pnow))

\* a timeout that never buys an exact match: it ends the session instead
TimeUp_NeverPays(S, sp, now) ==
  IF S.currentPiece # Null
    THEN
      LET s == ShapeOf(S.shapeTable, S.currentPiece) IN
      LET t == ExactMatchTest(S.grid, s, S.currentPiece) IN
      IF t.threw THEN [S EXCEPT !.thrown = TRUE]
      ELSE IF t.match
        THEN end(S)
        ELSE AfterCollisionCheck(S, end(S),
               [placePiece(S, sp, S.perfNow) EXCEPT !.timerRemaining = timerDuration,
                                                   !.lastTimerTick = now])
    ELSE end(S)

\* update, the branch taken when the countdown has reached zero
TimeUp(S, sp, now) ==
  IF S.currentPiece # Null
    THEN
      LET s == ShapeOf(S.shapeTable, S.currentPiece) IN
      LET t == ExactMatchTest(S.grid, s, S.currentPiece) IN
      IF t.threw THEN [S EXCEPT !.thrown = TRUE]
      ELSE IF t.match
        THEN IF S.score >= RemovalCost(S.grid, s, S.currentPiece)
               THEN PaidRemoval(S, S.perfNow)
               ELSE end(S)
        ELSE AfterCollisionCheck(S, end(S),
               [placePiece(S, sp, S.perfNow) EXCEPT !.timerRemaining = timerDuration,
                                                   !.lastTimerTick = now])
    ELSE end(S)

\* a countdown that also runs while a batch is active
updateTimer_DuringBatch(S, sp, now) ==
  IF S.isRunning /\ ~S.isGameOver
    THEN
      LET last == IF S.lastTimerTick # 0 THEN S.lastTimerTick ELSE now
          dt == now - last
          S1 == [S EXCEPT !.lastTimerTick = now,
                          !.timerRemaining = Max(0, @ - dt)]
      IN IF S1.timerRemaining <= 0 /\ ~S.loopRemoval.active THEN TimeUp(S1, sp, now) ELSE S1
    ELSE S

\* update, first part: the countdown
updateTimer(S, sp, now) ==
  IF S.isRunning /\ ~S.isGameOver /\ ~S.loopRemoval.active
    THEN
      LET last == IF S.lastTimerTick # 0 THEN S.lastTimerTick ELSE now
          dt == now - last
          S1 == [S EXCEPT !.lastTimerTick = now,
                          !.timerRemaining = Max(0, @ - dt)]
      IN IF S1.timerRemaining <= 0 THEN TimeUp(S1, sp, now) ELSE S1
    ELSE S

\* is every cell of the grid CELL_EMPTY (the boardEmpty scan of update)
boardEmpty(g) ==
  \A yy \in 0..(BoardHeight - 1) : \A xx \in 0..(BoardWidth - 1) : g[yy][xx] = CELL_EMPTY

\* an end of batch that doubles the score whatever the grid holds
FinishRemoval_AlwaysDoubles(S, sp, now) ==
  LET S1 == [S EXCEPT !.loopRemoval.active = FALSE, !.loopRemoval.pointsPerTile = 1,
                      !.lrTrace = NoTrace, !.score = @ * 2]
  IN spawnPiece(S1, sp, S.perfNow)

\* an end of batch without the board-empty bonus
FinishRemoval_NoBonus(S, sp, now) ==
  LET S1 == [S EXCEPT !.loopRemoval.active = FALSE, !.loopRemoval.pointsPerTile = 1,
                      !.lrTrace = NoTrace]
  IN spawnPiece(S1, sp, S.perfNow)

\* an end of a batch that spawns no piece
FinishRemoval_NoSpawn(S, sp, now) ==
  LET S1 == [S EXCEPT !.loopRemoval.active = FALSE, !.loopRemoval.pointsPerTile = 1,
                      !.lrTrace = NoTrace]
  IN IF boardEmpty(S1.grid) THEN [S1 EXCEPT !.score = @ * 2] ELSE S1

\* an end of a batch that leaves the delta per tile as the batch had it
FinishRemoval_KeepsDelta(S, sp, now) ==
  LET S1 == [S EXCEPT !.loopRemoval.active = FALSE, !.lrTrace = NoTrace]
      S2 == IF boardEmpty(S1.grid) THEN [S1 EXCEPT !.score = @ * 2] ELSE S1
  IN spawnPiece(S2, sp, S.perfNow)

\* update, the end of a batch: deactivate, bonus, spawn
FinishRemoval(S, sp, now) ==
  LET S1 == [S EXCEPT !.loopRemoval.active = FALSE, !.loopRemoval.pointsPerTile = 1,
                      !.lrTrace = NoTrace]
      S2 == IF boardEmpty(S1.grid) THEN [S1 EXCEPT !.score = @ * 2] ELSE S1
  IN spawnPiece(S2, sp, S.perfNow)

\* a removal step that adds 1 per tile whatever the batch's pointsPerTile
updateRemoval_FlatReward(S, sp, now) ==
  IF ~S.loopRemoval.active THEN S
  ELSE IF now - S.loopRemoval.lastTime >= interval
    THEN
      LET lr == S.loopRemoval
          hasCell == lr.index + 1 <= Len(lr.cells)
          c == lr.cells[lr.index + 1]
          S1 == IF hasCell /\ InBounds(c.x, c.y)
                  THEN [S EXCEPT !.grid = setCell(@, c.x, c.y, CELL_EMPTY),
                                 !.score = @ + 1,
                                 !.lrTrace.cleared = Append(@, c)]
                  ELSE S
          S2 == [S1 EXCEPT !.loopRemoval.index = @ + 1, !.loopRemoval.lastTime = now]
      IN IF S2.loopRemoval.index >= Len(S2.loopRemoval.cells)
           THEN FinishRemoval(S2, sp, now)
           ELSE S2
    ELSE S

\* a removal step that advances the cursor by two
updateRemoval_SkipsCell(S, sp, now) ==
  IF ~S.loopRemoval.active THEN S
  ELSE IF now - S.loopRemoval.lastTime >= interval
    THEN
      LET lr == S.loopRemoval
          hasCell == lr.index + 1 <= Len(lr.cells)
          c == lr.cells[lr.index + 1]
          S1 == IF hasCell /\ InBounds(c.x, c.y)
                  THEN [S EXCEPT !.grid = setCell(@, c.x, c.y, CELL_EMPTY),
                                 !.score = @ + lr.pointsPerTile,
                                 !.lrTrace.cleared = Append(@, c)]
                  ELSE S
          S2 == [S1 EXCEPT !.loopRemoval.index = @ + 2, !.loopRemoval.lastTime = now]
      IN IF S2.loopRemoval.index >= Len(S2.loopRemoval.cells)
           THEN FinishRemoval(S2, sp, now)
           ELSE S2
    ELSE S

\* a removal animation that catches up: a call that comes two intervals or
\* more after the last step makes two steps
updateRemoval_CatchesUp(S, sp, now) ==
  LET Step(T) ==
        IF ~T.loopRemoval.active THEN T
        ELSE IF now - T.loopRemoval.lastTime >= interval
          THEN
            LET lr == T.loopRemoval
                hasCell == lr.index + 1 <= Len(lr.cells)
                c == lr.cells[lr.index + 1]
                T1 == IF hasCell /\ InBounds(c.x, c.y)
                        THEN [T EXCEPT !.grid = setCell(@, c.x, c.y, CELL_EMPTY),
                                       !.score = @ + lr.pointsPerTile,
                                       !.lrTrace.cleared = Append(@, c)]
                        ELSE T
                T2 == [T1 EXCEPT !.loopRemoval.index = @ + 1, !.loopRemoval.lastTime = now]
            IN IF T2.loopRemoval.index >= Len(T2.loopRemoval.cells)
                 THEN FinishRemoval(T2, sp, now)
                 ELSE T2
          ELSE T
      first == Step(S)
  IN IF /\ S.loopRemoval.active
        /\ now - S.loopRemoval.lastTime >= 2 * interval
        /\ first.loopRemoval.active
       THEN Step([first EXCEPT !.loopRemoval.lastTime = S.loopRemoval.lastTime + interval])
       ELSE first

\* update, second part: one step of the removal animation
updateRemoval(S, sp, now) ==
  IF ~S.loopRemoval.active THEN S
  ELSE IF now - S.loopRemoval.lastTime >= interval
    THEN
      LET lr == S.loopRemoval
          hasCell == lr.index + 1 <= Len(lr.cells)
          c == lr.cells[lr.index + 1]
          S1 == IF hasCell /\ InBounds(c.x, c.y)
                  THEN [S EXCEPT !.grid = setCell(@, c.x, c.y, CELL_EMPTY),
                                 !.score = @ + lr.pointsPerTile,
                                 !.lrTrace.cleared = Append(@, c)]
                  ELSE S
          S2 == [S1 EXCEPT !.loopRemoval.index = @ + 1, !.loopRemoval.lastTime = now]
      IN IF S2.loopRemoval.index >= Len(S2.loopRemoval.cells)
           THEN FinishRemoval(S2, sp, now)
           ELSE S2
    ELSE S

\* Game.update(now); a TypeError in the first part ends the call
update(S, sp, now) ==
  LET T == updateTimer(S, sp, now)
  IN IF T.thrown THEN T ELSE updateRemoval(T, sp, now)

\* main.ts startGame at the time S.perfNow: game.start(), then gameLoop, which
\* calls game.update(performance.now()) in the same task. sp are the draws of
\* the spawn of start, sp2 those of the spawn the update makes when it
\* completes a batch that start has left active.
startGame(S, sp, sp2) ==
  CHOOSE R \in {update(T, sp2, T.perfNow) : T \in {start(S, sp, S.perfNow)}} : TRUE

(* ---------------------------------------------------------------------- *)
(* mobileControls.ts, main.ts: the touch handlers                          *)
(* ---------------------------------------------------------------------- *)
\* the columns and rows of matrix s that hold a tile (s[cx][cy] !== 0)
OccCols(s) == {Occupied(s)[i].cx : i \in 1..Len(Occupied(s))}
OccRows(s) == {Occupied(s)[i].cy : i \in 1..Len(Occupied(s))}

\* Math.min(hi, Math.max(lo, v))
ClampTo(v, lo, hi) == Min(hi, Max(lo, v))

\* Math.round of X/Den: the nearest integer, a half goes up
Round(X) == (2 * X + Den) \div (2 * Den)

\* |v|
Abs(v) == IF v < 0 THEN -v ELSE v

\* touchmove: distSq > 9 for a finger (tx, ty) units from where it went down,
\* dx = tx * cellSize / Den pixels
FarEnough(tx, ty) == (tx * tx + ty * ty) * cellSize * cellSize > 9 * Den * Den

\* touchend: Math.abs(dx) < 8 && Math.abs(dy) < 8
NearStart(tx, ty) == Abs(tx) * cellSize < 8 * Den /\ Abs(ty) * cellSize < 8 * Den

\* the touchmove handler once dragging is set: it writes the anchor of the
\* piece held now, desiredX = startPieceX + dx / cellSize clamped into the
\* range that keeps the occupied columns on the board, the fraction kept, and
\* the same for the rows. (X/Den, Y/Den) is (desiredX, desiredY). It does not
\* ask whether the session is running.
touchmove(S, X, Y) ==
  IF S.currentPiece = Null THEN S
  ELSE
    LET s == ShapeOf(S.shapeTable, S.currentPiece)
    IN IF Len(Occupied(s)) = 0 THEN S
       ELSE
         LET minXAllowed == -Least(OccCols(s))
             maxXAllowed == BoardWidth - 1 - Greatest(OccCols(s))
             minYAllowed == -Least(OccRows(s))
             maxYAllowed == BoardHeight - 1 - Greatest(OccRows(s))
         IN [S EXCEPT !.currentPiece =
                         AtFine(@, ClampTo(X, minXAllowed * Den, maxXAllowed * Den),
                                   ClampTo(Y, minYAllowed * Den, maxYAllowed * Den))]

\* the touchend handler at the end of a drag (moved, and the finger 8 pixels
\* or more from where it went down): the anchor is rounded to whole cells
\* and clamped again
touchend(S) ==
  IF S.currentPiece = Null THEN S
  ELSE
    LET s == ShapeOf(S.shapeTable, S.currentPiece)
        rx == Round(FineX(S.currentPiece))
        ry == Round(FineY(S.currentPiece))
    IN IF Len(Occupied(s)) = 0
         THEN [S EXCEPT !.currentPiece = AtFine(@, rx * Den, ry * Den)]
         ELSE
           LET minXAllowed == -Least(OccCols(s))
               maxXAllowed == BoardWidth - 1 - Greatest(OccCols(s))
               minYAllowed == -Least(OccRows(s))
               maxYAllowed == BoardHeight - 1 - Greatest(OccRows(s))
           IN [S EXCEPT !.currentPiece =
                           AtFine(@, ClampTo(rx, minXAllowed, maxXAllowed) * Den,
                                     ClampTo(ry, minYAllowed, maxYAllowed) * Den)]

\* main.ts onRotateLeft: three rotatePiece calls if a piece is held
onRotateLeft(S) ==
  IF S.currentPiece # Null THEN rotatePiece(rotatePiece(rotatePiece(S))) ELSE S

\* main.ts onRotateRight: one rotatePiece call if a piece is held
onRotateRight(S) == IF S.currentPiece # Null THEN rotatePiece(S) ELSE S

(* ---------------------------------------------------------------------- *)
(* Call sequences                                                          *)
(* ---------------------------------------------------------------------- *)
\* the time the page is loaded at and the first session starts
SessionStart == interval

\* new Game(), the fields as one record; performance.now() is SessionStart
NewGame ==
  [grid |-> EmptyGrid, shapeTable |-> PIECE_SHAPES, currentPiece |-> Null,
   score |-> 0, highScores |-> <<>>, isRunning |-> FALSE, isGameOver |-> FALSE,
   timerRemaining |-> timerDuration, lastTimerTick |-> 0,
   loopRemoval |-> [active |-> FALSE, cells |-> <<>>, index |-> 0, lastTime |-> 0,
                    pointsPerTile |-> 1],
   lrTrace |-> NoTrace, placed |-> 0, perfNow |-> SessionStart, thrown |-> FALSE]

\* the calls of a sequence; update comes dt after the call before it
CallStart(sp) == [op |-> "start", sp |-> sp]
CallMove(dx, dy) == [op |-> "movePiece", dx |-> dx, dy |-> dy]
CallRotate == [op |-> "rotatePiece"]
CallPlace(sp) == [op |-> "placePiece", sp |-> sp]
CallUpdate(dt, sp) == [op |-> "update", dt |-> dt, sp |-> sp]

\* the Game object after call c, sp the draws of the spawn the call may make
Call(S, c) ==
  CASE c.op = "start" -> start(S, c.sp, S.perfNow)
    [] c.op = "movePiece" -> movePiece(S, c.dx, c.dy)
    [] c.op = "rotatePiece" -> rotatePiece(S)
    [] c.op = "placePiece" -> placePiece(S, c.sp, S.perfNow)
    [] c.op = "update" -> update([S EXCEPT !.perfNow = @ + c.dt], c.sp, S.perfNow + c.dt)

\* the Game object after a sequence of calls, each made on the object the
\* call before it has left
RECURSIVE Run(_, _)
Run(S, calls) ==
  CHOOSE R \in {IF cs = <<>> THEN V ELSE Run(Call(V, Head(cs)), Tail(cs)) :
                  V \in {S}, cs \in {calls}} : TRUE

\* the draw of the U-turn piece in rotation r at anchor (0, 0)
DrawU(r) == [idx |-> 5, randX |-> 0, randY |-> 0, rotation |-> r]

\* the draw of the single vertical straight tile at anchor (0, 0)
DrawTile == [idx |-> 1, randX |-> 0, randY |-> 0, rotation |-> 0]

\* With the upright U-turn piece (RO over RU) held at (0, 0): it is moved one
\* column to the right and placed, its mirror image (LO over LU) is spawned at
\* (0, 0) and placed, which closes a loop of four tiles, and four update calls
\* interval apart clear the loop; the last of them finds the board empty,
\* doubles the score and spawns the piece of draw next.
LoopCalls(next) ==
  <<CallMove(1, 0), CallPlace(DrawU(3)), CallPlace(DrawU(1)),
    CallUpdate(interval, DrawU(1)), CallUpdate(interval, DrawU(1)),
    CallUpdate(interval, DrawU(1)), CallUpdate(interval, next)>>

\* k loops one after the other, the piece of draw last spawned after them
RECURSIVE Loops(_, _)
Loops(k, last) ==
  IF k = 0 THEN <<>>
  ELSE IF k = 1 THEN LoopCalls(last)
  ELSE LoopCalls(DrawU(1)) \o Loops(k - 1, last)

\* a session from start() on: k loops are closed and cleared, then the single
\* tile is placed at (0, 0) and the U-turn piece spawned at (0, 0) hovers over
\* it; the piece collides there whichever way it is turned
SessionCalls(k) ==
  <<CallStart(IF k = 0 THEN DrawTile ELSE DrawU(1))>>
    \o Loops(k, DrawTile) \o <<CallPlace(DrawU(0))>>

\* the session played to its end: the countdown runs out over the piece that
\* collides, which is the game over
EndedSessionCalls(k) == SessionCalls(k) \o <<CallUpdate(timerDuration, DrawU(1))>>

\* the Game object after the sessions of a sequence ks of numbers of loops,
\* played one after the other to their game over
RECURSIVE EndedSessions(_, _)
EndedSessions(S, ks) ==
  CHOOSE R \in {IF ks = <<>> THEN V
                ELSE EndedSessions(Run(V, EndedSessionCalls(Head(ks))), Tail(ks)) :
                  V \in {S}} : TRUE

(* ---------------------------------------------------------------------- *)
(* The state machine                                                       *)
(* ---------------------------------------------------------------------- *)
\* the fields of the Game object are those of record S
GameIs(S) ==
  /\ grid = S.grid
  /\ shapeTable = S.shapeTable
  /\ currentPiece = S.currentPiece
  /\ score = S.score
  /\ highScores = S.highScores
  /\ isRunning = S.isRunning
  /\ isGameOver = S.isGameOver
  /\ timerRemaining = S.timerRemaining
  /\ lastTimerTick = S.lastTimerTick
  /\ loopRemoval = S.loopRemoval
  /\ lrTrace = S.lrTrace
  /\ thrown = S.thrown
  /\ clock = S.perfNow

\* no detectLoop query has been made
NoProbe == [x |-> -1, y |-> -1, loop |-> <<>>]

\* mobileControls.ts, the variables of the handlers as declared: no touch
\* event has been handled
NoTouch ==
  /\ touches = <<>>
  /\ moved = FALSE
  /\ startPieceX = 0
  /\ startPieceY = 0

\* the variables of the handlers after touchstart with piece p held
TouchedAt(p) ==
  /\ touches = <<<<0, 0>>>>
  /\ moved = FALSE
  /\ startPieceX = FineX(p)
  /\ startPieceY = FineY(p)

\* new Game()
Init ==
  /\ grid = EmptyGrid
  /\ shapeTable = PIECE_SHAPES
  /\ currentPiece = Null
  /\ score = 0
  /\ highScores = <<>>
  /\ isRunning = FALSE
  /\ isGameOver = FALSE
  /\ timerRemaining = timerDuration
  /\ lastTimerTick = 0
  /\ loopRemoval = [active |-> FALSE, cells |-> <<>>, index |-> 0, lastTime |-> 0,
                    pointsPerTile |-> 1]
  /\ lrTrace = NoTrace
  /\ placed = 0
  /\ clock = 0
  /\ skew = 0
  /\ probe = NoProbe
  /\ waited = 0
  /\ starts = 0
  /\ thrown = FALSE
  /\ NoTouch
  /\ framesRequested = 0

\* The exploration is bounded by the cost of a call sequence: one unit for every
\* placement written to the grid, two for every start() after the first, and,
\* counted with the waits, TouchCost for every touchstart event, DragCost for
\* every touchmove event, FarCost for every move to an anchor right of column
\* WinX or below row WinY, DrawCost for every spawn whose draws are not among
\* FollowedDraws, and for an update() or a startGame made while no batch is
\* active one unit if it comes timerDuration after the clock and two if it
\* comes interval after the clock. Other moves, rotations, rejected placements, update() calls at
\* the time of the clock, the update() calls that animate a batch and touchend
\* are free.
Cost(nStarts, nPlaced, nWaited) == nPlaced + nWaited + 2 * Max(nStarts - 1, 0)

WaitCost(dt) ==
  IF loopRemoval.active \/ dt = 0 THEN 0
  ELSE IF dt = interval THEN 2
  ELSE 1

\* The results of a call Op(sp) over the draws of spawnPiece. The handlers use
\* the draws only to build the spawned piece and do not read that piece again,
\* so the call is evaluated once with the draws left open (NoDraw) and the
\* draws are filled in where the result holds the piece built from NoDraw.
NoDraw == [idx |-> -2, randX |-> 0, randY |-> 0, rotation |-> 0]

\* the Game object r of a call that has spawned, with the piece of draws sp
Spawned(r, sp) ==
  [r EXCEPT !.currentPiece =
     [NewPiece(sp.idx, sp.randX, sp.randY) EXCEPT !.rotation = sp.rotation]]

\* the draws of a call that has left r and has cost spent, each with its
\* weight: every draw of spawnPiece, those outside FollowedDraws as far as
\* DrawCost can be paid; NoDraw for a call that has not spawned
DrawsOf(r, spent) ==
  IF r.currentPiece.shapes = NoDraw.idx
    THEN {[sp |-> sp, draw |-> 0] : sp \in FollowedDraws(r.shapeTable)}
           \cup (IF spent + DrawCost <= MaxCost
                   THEN {[sp |-> sp, draw |-> DrawCost] :
                           sp \in SpawnDraws(r.shapeTable) \ FollowedDraws(r.shapeTable)}
                   ELSE {})
    ELSE {[sp |-> NoDraw, draw |-> 0]}

\* the Game object of a call that has left r and has made the draws d
Filled(r, d) == IF d.sp = NoDraw THEN r ELSE Spawned(r, d.sp)

\* main.ts gameLoop after its update call has left r: the next frame is
\* requested unless the call has thrown
NextFrame(r) == ~r.thrown /\ (r.isRunning \/ (r.isGameOver /\ ~r.isRunning))

\* main.ts startGame, dt after the last reading of the clock: game.start() and
\* the first run of gameLoop with its game.update call, after which the next
\* frame is requested; the frames requested before stay requested. Where
\* the update completes a batch its spawn replaces
\* the piece start has spawned, so the draws of the piece that is left are the
\* ones enumerated.
Start ==
  /\ \E dt \in DtSet :
        /\ dt >= skew
        /\ Cost(starts + 1, placed, waited + WaitCost(dt)) <= MaxCost
        /\ LET Op(C, sp) == startGame(C, sp, sp)
               Spent(r) == Cost(starts + 1, r.placed, waited + WaitCost(dt))
           IN \E C \in {[Cur EXCEPT !.perfNow = clock + dt]} :
              \E r \in {Op(C, NoDraw)} : \E d \in DrawsOf(r, Spent(r)) :
                 /\ clock' = clock + dt
                 /\ waited' = waited + WaitCost(dt) + d.draw
                 /\ SetGame(Filled(r, d))
                 /\ framesRequested' = framesRequested + (IF NextFrame(Filled(r, d)) THEN 1 ELSE 0)
  /\ skew' = 0
  /\ starts' = starts + 1
  /\ UNCHANGED <<probe, touchVars>>

\* main.ts keydown, the arrow keys: the handler returns unless a piece is held
\* and the session is running
MovePiece ==
  /\ currentPiece # Null /\ isRunning
  /\ \E d \in MoveSet :
        LET far == IF currentPiece.x + d[1] <= WinX /\ currentPiece.y + d[2] <= WinY
                     THEN 0 ELSE FarCost
        IN /\ Cost(starts, placed, waited + far) <= MaxCost
           /\ \E r \in {movePiece(Cur, d[1], d[2])} : SetGame(r)
           /\ waited' = waited + far
  /\ UNCHANGED <<clock, skew, starts, probe, touchVars, framesRequested>>

RotatePiece ==
  /\ \E r \in {rotatePiece(Cur)} : SetGame(r)
  /\ UNCHANGED <<clock, skew, waited, starts, probe, touchVars, framesRequested>>

PlacePiece ==
  /\ LET Op(sp) == placePiece(Cur, sp, clock + skew)
         Spent(r) == Cost(starts, r.placed, waited)
     IN \E r \in {Op(NoDraw)} : \E d \in DrawsOf(r, Spent(r)) :
           /\ Cost(starts, Filled(r, d).placed, waited + d.draw) <= MaxCost
           /\ SetGame(Filled(r, d))
           /\ waited' = waited + d.draw
  /\ UNCHANGED <<clock, skew, starts, probe, touchVars, framesRequested>>

\* main.ts gameLoop, run as one of the frames requested:
\* game.update(performance.now()), then the next frame is requested in its
\* place unless the call has thrown; the other frames stay requested
Update ==
  /\ framesRequested > 0
  /\ \E dt \in DtSet :
        /\ dt >= skew
        /\ LET Op(sp) == update([Cur EXCEPT !.perfNow = clock + dt], sp, clock + dt)
               Spent(r) == Cost(starts, r.placed, waited + WaitCost(dt))
           IN \E r \in {Op(NoDraw)} : \E d \in DrawsOf(r, Spent(r)) :
                 /\ Cost(starts, Filled(r, d).placed, waited + WaitCost(dt) + d.draw) <= MaxCost
                 /\ clock' = clock + dt
                 /\ waited' = waited + WaitCost(dt) + d.draw
                 /\ SetGame(Filled(r, d))
                 /\ framesRequested' = framesRequested - (IF NextFrame(Filled(r, d)) THEN 0 ELSE 1)
  /\ skew' = 0
  /\ UNCHANGED <<starts, probe, touchVars>>

\* main.ts gameLoop: game.update(performance.now()), with the clock running
\* on while update executes: its own readings of performance.now() return
\* now + sk.  A call during which the clock ran on is charged one unit.
UpdateSkew ==
  /\ framesRequested > 0
  /\ \E dt \in DtSet, sk \in SkewSet \ {0} :
        /\ dt >= skew
        /\ LET Op(sp) == update([Cur EXCEPT !.perfNow = clock + dt + sk], sp, clock + dt)
               Spent(r) == Cost(starts, r.placed, waited + WaitCost(dt) + 1)
           IN \E r \in {Op(NoDraw)} : \E d \in DrawsOf(r, Spent(r)) :
                 /\ Cost(starts, Filled(r, d).placed, waited + WaitCost(dt) + 1 + d.draw) <= MaxCost
                 /\ clock' = clock + dt
                 /\ waited' = waited + WaitCost(dt) + 1 + d.draw
                 /\ skew' = sk
                 /\ SetGame(Filled(r, d))
                 /\ framesRequested' = framesRequested - (IF NextFrame(Filled(r, d)) THEN 0 ELSE 1)
  /\ UNCHANGED <<starts, probe, touchVars>>

\* mobileControls.ts touchstart, also with fingers already down: startX and
\* startY are read from e.touches[0], the finger that went down first of those
\* on the canvas, so the finger that comes is f away from them; the anchor of
\* the piece held is kept, nothing has dragged yet
TouchStart ==
  /\ Len(touches) < MaxFingers
  /\ Cost(starts, placed, waited + TouchCost) <= MaxCost
  /\ SetGame(Cur)
  /\ \E f \in FingerSet :
        touches' = IF touches = <<>> THEN <<<<0, 0>>>>
                   ELSE Append([i \in 1..Len(touches) |->
                                  <<touches[i][1] - touches[1][1],
                                    touches[i][2] - touches[1][2]>>], f)
  /\ moved' = FALSE
  /\ startPieceX' = IF currentPiece # Null THEN FineX(currentPiece) ELSE 0
  /\ startPieceY' = IF currentPiece # Null THEN FineY(currentPiece) ELSE 0
  /\ waited' = waited + TouchCost
  /\ UNCHANGED <<clock, skew, starts, probe, framesRequested>>

\* mobileControls.ts touchmove: one of the fingers has gone on by one of the
\* travels of DragSet. dx and dy are those of e.touches[0]: once it has been
\* more than 3 pixels from startX, startY (dragging) the anchor is that of
\* touchstart plus its whole travel since.
TouchMove ==
  /\ touches # <<>>
  /\ Cost(starts, placed, waited + DragCost) <= MaxCost
  /\ \E i \in 1..Len(touches), d \in DragSet :
        LET T == [touches EXCEPT ![i] = <<touches[i][1] + d[1], touches[i][2] + d[2]>>]
            tx == T[1][1]
            ty == T[1][2]
            dragging == moved \/ FarEnough(tx, ty)
        IN /\ touches' = T
           /\ moved' = dragging
           /\ \E r \in {IF dragging
                          THEN touchmove(Cur, startPieceX + tx, startPieceY + ty)
                          ELSE Cur} : SetGame(r)
  /\ waited' = waited + DragCost
  /\ UNCHANGED <<clock, skew, starts, probe, startPieceX, startPieceY,
                 framesRequested>>

\* mobileControls.ts touchend of one of the fingers (e.changedTouches[0]), a
\* tap (nothing has dragged, or the finger is less than 8 pixels from startX,
\* startY): placePiece for a tap on the piece, else the rotation of the half
\* of the board tapped; the anchor is not rounded. The other fingers stay.
TouchEndTap ==
  /\ \E i \in 1..Len(touches) :
        /\ ~moved \/ NearStart(touches[i][1], touches[i][2])
        /\ touches' = SubSeq(touches, 1, i - 1) \o SubSeq(touches, i + 1, Len(touches))
  /\ \/ /\ currentPiece # Null
        /\ LET Op(sp) == placePiece(Cur, sp, clock + skew)
               Spent(r) == Cost(starts, r.placed, waited)
           IN \E r \in {Op(NoDraw)} : \E d \in DrawsOf(r, Spent(r)) :
                 /\ Cost(starts, Filled(r, d).placed, waited + d.draw) <= MaxCost
                 /\ SetGame(Filled(r, d))
                 /\ waited' = waited + d.draw
     \/ /\ \E r \in {onRotateLeft(Cur)} : SetGame(r)
        /\ waited' = waited
     \/ /\ \E r \in {onRotateRight(Cur)} : SetGame(r)
        /\ waited' = waited
  /\ UNCHANGED <<clock, skew, starts, probe, moved, startPieceX, startPieceY,
                 framesRequested>>

\* mobileControls.ts touchend of one of the fingers, the end of a drag
TouchEndDrag ==
  /\ \E i \in 1..Len(touches) :
        /\ moved /\ ~NearStart(touches[i][1], touches[i][2])
        /\ touches' = SubSeq(touches, 1, i - 1) \o SubSeq(touches, i + 1, Len(touches))
  /\ \E r \in {touchend(Cur)} : SetGame(r)
  /\ UNCHANGED <<clock, skew, waited, starts, probe, moved, startPieceX, startPieceY,
                 framesRequested>>

Touch == TouchStart \/ TouchMove \/ TouchEndTap \/ TouchEndDrag

Next == Start \/ MovePiece \/ RotatePiece \/ PlacePiece \/ Update \/ Touch

Spec == Init /\ [][Next]_vars

\* main.ts gameLoop calls update again and again with timestamps that advance,
\* as long as it has a frame requested. Tick is the change of the clock made by
\* the update call that comes interval after the clock while a batch is
\* active. Such a call is free (WaitCost), so Update can make this step in
\* every state with an active batch and a frame requested, and weak fairness
\* of Tick says that these update calls keep coming.
Tick == framesRequested > 0 /\ loopRemoval.active /\ clock' = clock + interval

\* a session in which the first piece, the upright U-turn, has been placed at
\* (1, 0) and its mirror image, which closes the loop, is held at (0, 0)
HalfLoop == Run(NewGame, <<CallStart(DrawU(1)), CallMove(1, 0), CallPlace(DrawU(3))>>)

\* new Game(), or the session of HalfLoop with its frame requested
InitLive ==
  \/ Init
  \/ /\ GameIs(HalfLoop)
     /\ placed = 0
     /\ skew = 0
     /\ probe = NoProbe
     /\ waited = 0
     /\ starts = 1
     /\ NoTouch
     /\ framesRequested = 1

\* the game with update called again and again during a batch
SpecLive == InitLive /\ [][Next]_vars /\ WF_clock(Tick)

NextSkew == Start \/ MovePiece \/ RotatePiece \/ PlacePiece \/ Update \/ UpdateSkew \/ Touch

SpecSkew == Init /\ [][NextSkew]_vars

(* ---------------------------------------------------------------------- *)
(* Board.detectLoop over bounded grids                                     *)
(* ---------------------------------------------------------------------- *)
\* the cells of a window of w x h cells with top-left corner (x0, y0)
Window(x0, y0, w, h) == {Coord(x0 + i, y0 + j) : i \in 0..(w - 1), j \in 0..(h - 1)}

\* the windows whose fillings are explored: one in the top-left corner of the
\* board, a smaller one in the bottom-right corner
LoopWinW == 3
LoopWinH == 2
CornerWin == 2
WindowA == Window(0, 0, LoopWinW, LoopWinH)
WindowB == Window(BoardWidth - CornerWin, BoardHeight - CornerWin, CornerWin, CornerWin)

\* the tile kinds a cell can hold
CellKinds == {CELL_EMPTY, CELL_LU, CELL_LO, CELL_RO, CELL_RU, CELL_WG, CELL_SK}

\* the grid that holds f[c] at every cell c of the window and Empty elsewhere
GridOf(win, f) ==
  [y \in 0..(BoardHeight - 1) |->
     [x \in 0..(BoardWidth - 1) |->
        IF Coord(x, y) \in win THEN f[Coord(x, y)] ELSE CELL_EMPTY]]

\* the cells a query is made at: those of the window the grid was filled in
ProbeCells(g) ==
  IF \E c \in WindowB : g[c.y][c.x] # CELL_EMPTY THEN WindowB ELSE WindowA

\* a Board whose grid holds any filling of one of the windows
InitLoop ==
  /\ \/ \E f \in [WindowA -> CellKinds] : grid = GridOf(WindowA, f)
     \/ \E f \in [WindowB -> CellKinds] : grid = GridOf(WindowB, f)
  /\ shapeTable = PIECE_SHAPES
  /\ currentPiece = Null
  /\ score = 0
  /\ highScores = <<>>
  /\ isRunning = FALSE
  /\ isGameOver = FALSE
  /\ timerRemaining = timerDuration
  /\ lastTimerTick = 0
  /\ loopRemoval = [active |-> FALSE, cells |-> <<>>, index |-> 0, lastTime |-> 0,
                    pointsPerTile |-> 1]
  /\ lrTrace = NoTrace
  /\ placed = 0
  /\ clock = 0
  /\ skew = 0
  /\ probe = NoProbe
  /\ waited = 0
  /\ starts = 0
  /\ thrown = FALSE
  /\ NoTouch
  /\ framesRequested = 0

\* board.detectLoop(x, y), one query for every board: the call changes
\* nothing, a second query would be made on the board the first one was made on
DetectLoop ==
  /\ probe = NoProbe
  /\ \E c \in ProbeCells(grid) : probe' = [x |-> c.x, y |-> c.y, loop |-> detectLoop(grid, c.x, c.y)]
  /\ UNCHANGED <<grid, shapeTable, currentPiece, score, highScores, isRunning,
                 isGameOver, timerRemaining, lastTimerTick, loopRemoval, lrTrace,
                 placed, clock, skew, waited, starts, thrown, touchVars, framesRequested>>

NextLoop == DetectLoop

SpecLoop == InitLoop /\ [][NextLoop]_vars

(* ---------------------------------------------------------------------- *)
(* placePiece and the timeout of update over bounded pieces and grids      *)
(* ---------------------------------------------------------------------- *)
\* an anchor in the middle of the board
MidX == 3
MidY == 4

\* a session that has closed and cleared four loops, each of which left the
\* board empty, and holds the piece spawned after the last: its score pays
\* for every exact match
RichGame == Run(NewGame, <<CallStart(DrawU(1))>> \o Loops(4, DrawU(1)))

\* a session that has just started
FreshGame == Run(NewGame, <<CallStart(DrawU(1))>>)

\* the pieces held: every piece spawnPiece can build, of every shape in every
\* rotation variant at every anchor
HeldPieces ==
  {[NewPiece(sp.idx, sp.randX, sp.randY) EXCEPT !.rotation = sp.rotation] :
     sp \in SpawnDraws(PIECE_SHAPES)}

\* the anchors at which a piece is tried on every grid of GridsFor: the
\* top-left corner, the middle and the largest anchor spawnPiece draws
ProbeAnchors(hp) ==
  LET shape == PIECE_SHAPES[hp.shapes + 1]
  IN {<<0, 0>>, <<MidX, MidY>>,
      <<SpawnMax(BoardWidth, Len(shape[1])), SpawnMax(BoardHeight, Len(shape[1][1]))>>}

\* the grid that holds the tiles of matrix s anchored at (ax, ay), as far as
\* they lie on the board, and Empty elsewhere
StampGrid(s, ax, ay) ==
  [y \in 0..(BoardHeight - 1) |->
     [x \in 0..(BoardWidth - 1) |->
        IF x - ax \in 0..(Len(s) - 1) /\ y - ay \in 0..(Len(s[1]) - 1)
          THEN At(s, x - ax, y - ay) ELSE CELL_EMPTY]]

\* the board cells under the entries of matrix s anchored at (ax, ay) that hold
\* a tile (tiles = TRUE) or hold none (tiles = FALSE)
MatrixCells(s, ax, ay, tiles) ==
  {c \in Window(ax, ay, Len(s), Len(s[1])) :
     InBounds(c.x, c.y) /\ (At(s, c.x - ax, c.y - ay) # CELL_EMPTY) = tiles}

\* a kind other than the given one
OtherKind(kind) == (kind % 6) + 1

\* grid g with a tile on every board cell under an empty entry of the matrix
\* and on one cell away from the matrix
Crowded(g, s, ax, ay) ==
  [y \in 0..(BoardHeight - 1) |->
     [x \in 0..(BoardWidth - 1) |->
        IF Coord(x, y) \in MatrixCells(s, ax, ay, FALSE)
             \/ Coord(x, y) = Coord((ax + 5) % BoardWidth, (ay + 7) % BoardHeight)
          THEN CELL_SK ELSE g[y][x]]]

\* no tile of grid g lies on a closed loop. placePiece schedules every loop
\* it closes for removal, so the grid of a session without an active batch
\* holds none; a grid that holds none is built by placing its tiles one by one.
LoopFree(g) ==
  \A c \in Window(0, 0, BoardWidth, BoardHeight) :
     g[c.y][c.x] # CELL_EMPTY => detectLoop(g, c.x, c.y) = <<>>

\* the grids a held piece hp is tried on: empty; holding the piece's own
\* tiles; and at the probe anchors also holding them with one tile missing or
\* of another kind, and each of these with tiles on the cells the piece does
\* not cover
GridsFor(hp) ==
  LET s == ShapeOf(PIECE_SHAPES, hp)
      own == StampGrid(s, hp.x, hp.y)
      plain == {EmptyGrid, own}
                 \cup {setCell(own, c.x, c.y, CELL_EMPTY) :
                         c \in MatrixCells(s, hp.x, hp.y, TRUE)}
                 \cup {setCell(own, c.x, c.y, OtherKind(own[c.y][c.x])) :
                         c \in MatrixCells(s, hp.x, hp.y, TRUE)}
      all == IF <<hp.x, hp.y>> \in ProbeAnchors(hp)
               THEN plain \cup {Crowded(g, s, hp.x, hp.y) : g \in plain}
               ELSE {EmptyGrid, own}
  IN {g \in all : LoopFree(g)}

\* a running session that holds one of the pieces over one of its grids: the
\* tiles have been placed since the piece before was spawned, at the time of
\* the clock. The session is fresh or, at the probe anchors, rich; the calls
\* followed leave room for two more units at the probe anchors and for one
\* elsewhere. At the probe anchors a finger may have just gone down, which
\* leaves room for one unit.
InitPiece ==
  /\ \E base \in {FreshGame, RichGame}, hp \in HeldPieces :
        /\ \E g \in GridsFor(hp) :
              /\ <<hp.x, hp.y>> \in ProbeAnchors(hp) \/ base = FreshGame
              /\ GameIs([base EXCEPT !.currentPiece = hp, !.grid = g])
        /\ \E finger \in BOOLEAN :
              /\ finger => <<hp.x, hp.y>> \in ProbeAnchors(hp)
              /\ IF finger THEN TouchedAt(hp) ELSE NoTouch
              /\ placed = IF <<hp.x, hp.y>> \in ProbeAnchors(hp) /\ ~finger
                            THEN MaxCost - 2 ELSE MaxCost - 1
  /\ skew = 0
  /\ probe = NoProbe
  /\ waited = 0
  /\ starts = 1
  /\ framesRequested = 1

NextPiece == PlacePiece \/ Update \/ TouchMove

SpecPiece == InitPiece /\ [][NextPiece]_vars

(* ---------------------------------------------------------------------- *)
(* movePiece and rotatePiece over every shape and anchor                   *)
(* ---------------------------------------------------------------------- *)
\* a grid with a tile on every cell
FullGrid == [y \in 0..(BoardHeight - 1) |-> [x \in 0..(BoardWidth - 1) |-> CELL_WG]]

\* the grids of the sessions compared
MoveGrids == {EmptyGrid, FullGrid}

\* a running session that holds one of the pieces over a full grid: the tiles
\* have been placed one by one at the time of the clock; the calls followed
\* leave room for one gesture of two touchmove events
InitMove ==
  /\ \E hp \in HeldPieces :
        GameIs([FreshGame EXCEPT !.currentPiece = hp, !.grid = FullGrid])
  /\ placed = 0
  /\ skew = 0
  /\ probe = NoProbe
  /\ waited = MaxCost - 3
  /\ starts = 1
  /\ NoTouch
  /\ framesRequested = 1

\* main.ts keydown, the arrow keys, anywhere on the board: free of cost until
\* the first touch event, TouchCost from then on
MoveFree ==
  /\ currentPiece # Null /\ isRunning
  /\ LET key == IF NoTouch THEN 0 ELSE TouchCost
     IN /\ Cost(starts, placed, waited + key) <= MaxCost
        /\ waited' = waited + key
  /\ \E d \in MoveSet : \E r \in {movePiece(Cur, d[1], d[2])} : SetGame(r)
  /\ UNCHANGED <<clock, skew, starts, probe, touchVars, framesRequested>>

\* mobileControls.ts touchstart with the piece at one of its probe anchors
TouchStartProbe ==
  /\ currentPiece # Null
  /\ <<currentPiece.x, currentPiece.y>> \in ProbeAnchors(currentPiece)
  /\ TouchStart

NextMove == MoveFree \/ RotatePiece \/ TouchStartProbe \/ TouchMove \/ TouchEndDrag

SpecMove == InitMove /\ [][NextMove]_vars

(* ---------------------------------------------------------------------- *)
(* sessions that begin with a high-score list of earlier sessions          *)
(* ---------------------------------------------------------------------- *)
\* the numbers of loops closed in the sessions played before, a sequence for
\* every list of high scores the session begins with: none; nine and ten
\* sessions without a loop; three sessions with two loops each and seven
\* without
NoLoops(n) == [i \in 1..n |-> 0]
OldSessions ==
  {<<>>, NoLoops(9), NoLoops(10), [i \in 1..10 |-> IF i <= 3 THEN 2 ELSE 0]}

\* the numbers of loops closed in the session itself
SessionLoops == 0..1

\* a running session after earlier sessions, each played from start() to its
\* game over: it has closed and cleared its loops, placed a piece and holds
\* the next over it; the calls followed leave room for a game over and a new
\* start
InitScores ==
  /\ \E ks \in OldSessions, k \in SessionLoops :
        /\ \E S \in {Run(EndedSessions(NewGame, ks), SessionCalls(k))} : GameIs(S)
        /\ framesRequested = Len(ks) + 1
  /\ placed = MaxCost - 3
  /\ skew = 0
  /\ probe = NoProbe
  /\ waited = 0
  /\ starts = 1
  /\ NoTouch

SpecScores == InitScores /\ [][Next]_vars

(* ---------------------------------------------------------------------- *)
(* Spawning, moving and rotating every piece                                *)
(* ---------------------------------------------------------------------- *)
\* the number of start() calls followed
MaxStarts == 2

\* main.ts startGame with every draw of spawnPiece, at the time
\* performance.now() has reached. After the first, a start
\* is followed from the states in which rotations have changed the shape
\* table: from the others it spawns from the table the first one spawned from.
StartAny ==
  /\ starts < MaxStarts
  /\ starts = 0 \/ shapeTable # PIECE_SHAPES
  /\ \E sp \in SpawnDraws(shapeTable) :
        \E C \in {Cur} : \E r \in {startGame(C, sp, sp)} :
           /\ SetGame(r)
           /\ framesRequested' = framesRequested + (IF NextFrame(r) THEN 1 ELSE 0)
  /\ clock' = clock + skew
  /\ skew' = 0
  /\ starts' = starts + 1
  /\ UNCHANGED <<waited, probe, touchVars>>

NextSpawn == StartAny \/ MoveFree \/ RotatePiece

SpecSpawn == Init /\ [][NextSpawn]_vars

(* ---------------------------------------------------------------------- *)
(* Vocabulary of the properties, stated over the state and not through the  *)
(* handlers                                                                 *)
(* ---------------------------------------------------------------------- *)
\* the anchor of the current piece lies on a cell: both coordinates are whole
OnCell == currentPiece.fx = 0 /\ currentPiece.fy = 0

\* the non-Empty cells of the current piece's active shape, as board
\* coordinates; for an anchor between cells, the cells at the whole part
Footprint ==
  LET s == ShapeOf(shapeTable, currentPiece)
  IN {Coord(currentPiece.x + xy[1], currentPiece.y + xy[2]) :
        xy \in {ab \in (0..(Len(s) - 1)) \X (0..(Len(s[1]) - 1)) :
                  s[ab[1] + 1][ab[2] + 1] # CELL_EMPTY}}

\* the tile kind the current piece holds over board coordinate c
PieceTile(c) ==
  ShapeOf(shapeTable, currentPiece)[c.x - currentPiece.x + 1][c.y - currentPiece.y + 1]

\* the board coordinates a tile of piece p of the table lies over, as the
\* piece is drawn (a square of one cell at (piece.x + x, piece.y + y)): the
\* cell at the tile's position for an anchor on a cell, and for an anchor
\* between cells every cell the tile overlaps
Cover(table, p) ==
  LET occ == Occupied(ShapeOf(table, p))
  IN {Coord(p.x + occ[i].cx + ax, p.y + occ[i].cy + ay) :
        i \in 1..Len(occ),
        ax \in 0..(IF p.fx = 0 THEN 0 ELSE 1),
        ay \in 0..(IF p.fy = 0 THEN 0 ELSE 1)}

Covered == Cover(shapeTable, currentPiece)

\* every tile of piece p of the table lies inside the grid
Fits(table, p) == \A c \in Cover(table, p) : InBounds(c.x, c.y)

\* every tile of the piece lies on a board cell of the same kind
ExactMatch ==
  /\ OnCell
  /\ Footprint # {}
  /\ \A c \in Footprint : InBounds(c.x, c.y) /\ grid[c.y][c.x] = PieceTile(c)

\* the exact match can be paid: score >= 2k
Affordable == ExactMatch /\ score >= 2 * Cardinality(Footprint)

\* some tile of the piece lies out of bounds or over a non-Empty board cell
Overlaps == \E c \in Covered : ~InBounds(c.x, c.y) \/ grid[c.y][c.x] # CELL_EMPTY

\* checkPlacementCollision(currentPiece) returns true
Collides ==
  checkPlacementCollision(grid, ShapeOf(shapeTable, currentPiece), currentPiece).collision

\* checkPlacementCollision(currentPiece) ends in a TypeError
CollisionThrows ==
  checkPlacementCollision(grid, ShapeOf(shapeTable, currentPiece), currentPiece).threw

\* every cell of grid g is Empty
AllEmpty(g) == \A c \in (0..(BoardWidth - 1)) \X (0..(BoardHeight - 1)) : g[c[2]][c[1]] = CELL_EMPTY

\* the set of elements of sequence q
Range(q) == {q[i] : i \in 1..Len(q)}

\* the time update() takes as elapsed when called at the time of the next state
Elapsed == clock' - (IF lastTimerTick # 0 THEN lastTimerTick ELSE clock')

\* the step ends the session: isGameOver becomes true or running becomes false
EndsSession == (~isGameOver /\ isGameOver') \/ (isRunning /\ ~isRunning')

(* ---------------------------------------------------------------------- *)
(* C1                                                                       *)
(* ---------------------------------------------------------------------- *)
\* C1: under any interleaving of start, movePiece, rotatePiece, placePiece and
\* update, while the removal batch is active there is no current piece, and no
\* step spawns a piece while the batch has cells left.
C1_BatchExcludesPiece ==
  /\ [](loopRemoval.active => currentPiece = Null)
  /\ [][(loopRemoval.active /\ currentPiece = Null /\ currentPiece' # Null)
          => ~loopRemoval'.active]_vars

(* ---------------------------------------------------------------------- *)
(* C2                                                                       *)
(* ---------------------------------------------------------------------- *)
\* C2: a step that sets isGameOver or clears running is an update() step of a
\* running session without active batch whose countdown has reached zero at that
\* tick; it is not a step of start, movePiece, rotatePiece or placePiece.
C2_GameOverOnlyInUpdate ==
  [][EndsSession =>
       /\ isRunning /\ ~isGameOver /\ ~loopRemoval.active
       /\ timerRemaining <= Elapsed
       /\ timerRemaining' = 0 /\ isGameOver' /\ ~isRunning'
       /\ Update
       /\ ~(Start \/ MovePiece \/ RotatePiece \/ PlacePiece)]_vars

\* a session that has ended by timeout
C2_Witness == isGameOver /\ ~isRunning /\ timerRemaining = 0 /\ clock >= timerDuration

(* ---------------------------------------------------------------------- *)
(* C3                                                                       *)
(* ---------------------------------------------------------------------- *)
\* C3: movePiece, rotatePiece and placePiece change nothing when there is no
\* current piece or the session is not running.
C3_NoOpUnlessRunning ==
  [][((currentPiece = Null \/ ~isRunning) /\ (MovePiece \/ RotatePiece \/ PlacePiece))
       => UNCHANGED gameVars]_vars

(* ---------------------------------------------------------------------- *)
(* C4                                                                       *)
(* ---------------------------------------------------------------------- *)
\* the session ends with its score entered into the high scores, nothing is
\* placed or scheduled
EndsWithScore ==
  /\ ~isRunning' /\ isGameOver'
  /\ Len(highScores') = Min(Len(highScores) + 1, 10)
  /\ \E i \in 1..(Len(highScores) + 1) :
        highScores' = SubSeq(SubSeq(highScores, 1, i - 1) \o <<score>>
                               \o SubSeq(highScores, i, Len(highScores)),
                             1, Min(Len(highScores) + 1, 10))
  /\ \A i \in 1..(Len(highScores') - 1) : highScores'[i] >= highScores'[i + 1]
  /\ grid' = grid /\ score' = score /\ placed' = placed
  /\ currentPiece' = currentPiece
  /\ loopRemoval' = loopRemoval

\* update() finds the countdown of a running session at zero while the piece
\* has no affordable exact match and collides
CollidingTimeout ==
  /\ isRunning /\ ~isGameOver /\ ~loopRemoval.active
  /\ currentPiece # Null
  /\ timerRemaining <= Elapsed
  /\ ~Affordable
  /\ Overlaps \/ ExactMatch
  /\ Update

\* C4: when update() finds the countdown at zero and the piece has no affordable
\* exact match and collides, the step ends the session: running false, isGameOver
\* true, the score entered into the high scores, nothing placed or scheduled. An
\* exact match the score cannot pay collides, so it is not placed. (Violated: a
\* piece dragged to an anchor between two rows makes update() index a row the
\* grid does not have; the call ends in a TypeError with the session running.)
C4_TimeoutCollisionEndsSession == [][CollidingTimeout => EndsWithScore]_vars

\* what holds instead: the session ends so unless the anchor lies between two
\* rows, and then the call throws and leaves the session running
C4_TimeoutEndsOrThrows ==
  [][CollidingTimeout
       => IF currentPiece.fy = 0 THEN EndsWithScore /\ ~thrown'
          ELSE /\ thrown' /\ isRunning' /\ ~isGameOver' /\ highScores' = highScores
               /\ grid' = grid /\ currentPiece' = currentPiece]_vars

(* ---------------------------------------------------------------------- *)
(* C5                                                                       *)
(* ---------------------------------------------------------------------- *)
\* C5: placePiece on a piece in exact match with k > 0 footprint cells and
\* score >= 2k schedules a batch of exactly those k cells with per-tile delta -2,
\* clears the current piece, leaves grid and score unchanged and spawns nothing.
C5_PaidRemovalScheduled ==
  [][(currentPiece # Null /\ Affordable /\ PlacePiece)
       => /\ loopRemoval'.active
          /\ Range(loopRemoval'.cells) = Footprint
          /\ Len(loopRemoval'.cells) = Cardinality(Footprint)
          /\ loopRemoval'.index = 0
          /\ loopRemoval'.pointsPerTile = -2
          /\ currentPiece' = Null
          /\ grid' = grid /\ score' = score
          /\ timerRemaining' = timerRemaining]_vars

\* a paid batch just scheduled by placePiece: the countdown has not run out
C5_Witness ==
  /\ loopRemoval.active /\ loopRemoval.pointsPerTile = -2 /\ loopRemoval.index = 0
  /\ currentPiece = Null /\ isRunning /\ timerRemaining > 0
  /\ score >= 2 * Len(loopRemoval.cells)
  /\ \A i \in 1..Len(loopRemoval.cells) :
        grid[loopRemoval.cells[i].y][loopRemoval.cells[i].x] # CELL_EMPTY

(* ---------------------------------------------------------------------- *)
(* C6                                                                       *)
(* ---------------------------------------------------------------------- *)
\* C6: placePiece on a piece that collides and is not an affordable exact match
\* is rejected as a whole: no batch, no grid write, the piece keeps anchor and
\* rotation, score and countdown are unchanged.
C6_CollidingPlacementRejected ==
  [][(currentPiece # Null /\ Overlaps /\ ~Affordable /\ PlacePiece)
       => UNCHANGED gameVars]_vars

\* a running session whose piece hovers over occupied cells it does not match,
\* the state a rejected placePiece leaves as it found it
C6_Witness ==
  /\ isRunning /\ currentPiece # Null
  /\ Overlaps /\ Collides /\ ~ExactMatch
  /\ \A c \in Footprint : InBounds(c.x, c.y)
  /\ ~loopRemoval.active

(* ---------------------------------------------------------------------- *)
(* C7                                                                       *)
(* ---------------------------------------------------------------------- *)
\* the placement of one short straight piece (a single SK tile) at (3,3) on the
\* empty grid of a new session: the next piece spawns, the score stays 0
C7_Example ==
  LET sk == [idx |-> 1, randX |-> 3, randY |-> 3, rotation |-> 0]
      nxt == [idx |-> 5, randX |-> 0, randY |-> 0, rotation |-> 0]
      S0 == start(Cur, sk, 0)
      R == placePiece(S0, nxt, 0)
  IN /\ ShapeOf(S0.shapeTable, S0.currentPiece)[1][1] = CELL_SK
     /\ R.grid = [EmptyGrid EXCEPT ![3][3] = CELL_SK]
     /\ R.currentPiece = [NewPiece(5, 0, 0) EXCEPT !.rotation = 0]
     /\ ~R.loopRemoval.active
     /\ R.score = 0 /\ R.score = S0.score

\* the step is a normal placement of the current piece
NormallyPlaced ==
  LET w == WriteCells(grid, ShapeOf(shapeTable, currentPiece), currentPiece, 1, <<>>)
  IN /\ \A x \in 0..(BoardWidth - 1) : \A y \in 0..(BoardHeight - 1) :
           grid'[y][x] = IF Coord(x, y) \in Footprint
                           THEN PieceTile(Coord(x, y)) ELSE grid[y][x]
     /\ score' = score
     /\ IF w.loopCells # <<>>
          THEN /\ currentPiece' = Null
               /\ loopRemoval'.active
               /\ loopRemoval'.pointsPerTile = 1
               /\ loopRemoval'.index = 0
               /\ Range(loopRemoval'.cells) = Range(w.loopCells)
               /\ Len(loopRemoval'.cells) = Cardinality(Range(w.loopCells))
               /\ timerRemaining' = timerRemaining
          ELSE /\ currentPiece' # Null
               /\ loopRemoval' = loopRemoval
               /\ timerRemaining' = timerDuration

\* C7: placePiece on a piece that does not collide and is not an affordable exact
\* match writes the footprint to the grid, clears the current piece, and either
\* (a written cell yielded a loop) schedules a batch over the loop coordinates,
\* each once, with per-tile delta +1 and spawns nothing, or (no loop) spawns the
\* next piece at once with the score unchanged. The single SK tile at (3,3) on an
\* empty grid is of the second kind. (Violated: a piece dragged to an anchor
\* between cells over empty cells is not placed; placePiece rejects it or ends
\* in a TypeError.)
C7_NormalPlacement ==
  /\ C7_Example
  /\ [][(currentPiece # Null /\ ~Affordable /\ ~Overlaps /\ PlacePiece)
          => NormallyPlaced]_vars

\* what holds instead: the placement is as claimed from an anchor on a cell;
\* from an anchor between cells placePiece leaves the session as it is, and
\* throws when the anchor lies between two rows
C7_PlacementFromCell ==
  [][(currentPiece # Null /\ ~Affordable /\ ~Overlaps /\ PlacePiece)
       => IF OnCell THEN NormallyPlaced /\ ~thrown'
          ELSE UNCHANGED gameVars /\ thrown' = (currentPiece.fy # 0)]_vars

(* ---------------------------------------------------------------------- *)
(* C8                                                                       *)
(* ---------------------------------------------------------------------- *)
\* the batch is active and its next step is due at the time of the next state
BatchDue == loopRemoval.active /\ clock' - loopRemoval.lastTime >= interval

\* the step due is the one that advances the cursor past the last cell
LastDue == BatchDue /\ loopRemoval.index + 1 >= Len(loopRemoval.cells)

\* C8: the update() step that advances the cursor past the last cell deactivates
\* the batch, resets the per-tile delta to +1, doubles the score exactly when
\* every grid cell is then Empty, and spawns the next piece with the countdown
\* reset to its full duration.
C8_BatchCompletion ==
  [][(LastDue /\ Update)
       => /\ ~loopRemoval'.active
          /\ loopRemoval'.pointsPerTile = 1
          /\ loopRemoval'.index = loopRemoval.index + 1
          /\ score' = (score + loopRemoval.pointsPerTile)
                        * (IF AllEmpty(grid') THEN 2 ELSE 1)
          /\ currentPiece' # Null
          /\ timerRemaining' = timerDuration
          /\ lastTimerTick' = clock']_vars

\* a loop batch of four cells completed at the time of the clock over a grid
\* that still holds tiles: the score is the 4 the loop earned, not doubled (a
\* doubled score is 8 or more), the next piece is there, the countdown full
C8_Witness ==
  /\ ~loopRemoval.active /\ loopRemoval.pointsPerTile = 1
  /\ Len(loopRemoval.cells) = 4 /\ loopRemoval.index = 4
  /\ loopRemoval.lastTime = clock /\ lastTimerTick = clock
  /\ currentPiece # Null /\ timerRemaining = timerDuration
  /\ \A i \in 1..4 : grid[loopRemoval.cells[i].y][loopRemoval.cells[i].x] = CELL_EMPTY
  /\ ~AllEmpty(grid) /\ score = 4

C10_DoubleOfScoreBeforeLastDelta ==
  [][(LastDue /\ Update /\ AllEmpty(grid')) => score' = 2 * score]_vars

\* C10, amended: if every grid cell is Empty when the batch completes, the
\* resulting score is 2 x the score immediately after the final tile's delta
\* was applied.
C10_DoubleOfScoreAfterLastDelta ==
  [][(LastDue /\ Update /\ AllEmpty(grid'))
       => score' = 2 * (score + loopRemoval.pointsPerTile)]_vars

\* a loop batch completed at the time of the clock over a grid left all Empty,
\* with the doubled score
C10_Witness ==
  /\ ~loopRemoval.active
  /\ Len(loopRemoval.cells) > 0 /\ loopRemoval.index = Len(loopRemoval.cells)
  /\ loopRemoval.lastTime = clock /\ lastTimerTick = clock
  /\ AllEmpty(grid) /\ score = 2 * Len(loopRemoval.cells)

(* ---------------------------------------------------------------------- *)
(* C11                                                                      *)
(* ---------------------------------------------------------------------- *)
\* the step due completes a paid batch
PaidLastDue == LastDue /\ loopRemoval.pointsPerTile = -2

C12_EveryBatchUpdateLeavesTimer ==
  [][(loopRemoval.active /\ Update)
       => (timerRemaining' = timerRemaining /\ lastTimerTick' = lastTimerTick)]_vars

\* C12, amended: an update() made while a batch is active and that does not
\* complete it leaves the countdown and its reference tick unchanged; the call
\* that completes the batch spawns the next piece, which sets the countdown to
\* its full duration and the reference tick to the time of the call. So the
\* reference tick is never older than the end of the last batch, and the first
\* tick after a batch subtracts no time of the animation.
C12_TimerFrozenDuringBatch ==
  /\ [][(loopRemoval.active /\ Update)
          => IF loopRemoval'.active
               THEN timerRemaining' = timerRemaining /\ lastTimerTick' = lastTimerTick
               ELSE timerRemaining' = timerDuration /\ lastTimerTick' = clock']_vars
  /\ []((~loopRemoval.active /\ loopRemoval.cells # <<>>
           /\ loopRemoval.index = Len(loopRemoval.cells))
          => lastTimerTick >= loopRemoval.lastTime)

\* a batch under way in a running session: the clock has moved on with the
\* animation, the reference tick and the countdown have not
C12_Witness ==
  /\ loopRemoval.active /\ loopRemoval.index >= 2
  /\ isRunning /\ ~isGameOver
  /\ clock >= lastTimerTick + 2 * interval
  /\ loopRemoval.lastTime = clock
  /\ timerRemaining = timerDuration

(* ---------------------------------------------------------------------- *)
(* C13                                                                      *)
(* ---------------------------------------------------------------------- *)
\* the Game object of the next state as a record
CurNext ==
  [grid |-> grid', shapeTable |-> shapeTable', currentPiece |-> currentPiece',
   score |-> score', highScores |-> highScores', isRunning |-> isRunning',
   isGameOver |-> isGameOver', timerRemaining |-> timerRemaining',
   lastTimerTick |-> lastTimerTick', loopRemoval |-> loopRemoval',
   lrTrace |-> lrTrace', placed |-> placed', perfNow |-> clock' + skew',
   thrown |-> FALSE]

\* the Game object after a second update() with the timestamp of the step; a
\* call that throws again in the scan of a piece between rows is compared by
\* the fields it leaves
SecondUpdate ==
  [update(CurNext, NoDraw, clock') EXCEPT !.thrown = FALSE]

\* C13: after every update(t), a second update(t) with the same timestamp
\* changes nothing: countdown, reference tick, grid, score, batch, current
\* piece, flags and high-score list stay as the first call left them.
\* Violated under SpecSkew: an update(t) that spawns a piece stamps
\* lastTimerTick with performance.now() > t, and the second update(t) sees a
\* negative elapsed time, adds it to the countdown and moves the tick back.
C13_SecondUpdateChangesNothing ==
  [][(Update \/ UpdateSkew) => SecondUpdate = CurNext]_vars

\* the same statement for the calls during which performance.now() stood
\* still (Spec); it holds there
C13_UpdateIdempotent ==
  [][Update => SecondUpdate = CurNext]_vars

\* a running session whose countdown an update() at the time of the clock has
\* just run down part of the way
C13_Witness ==
  /\ isRunning /\ ~isGameOver /\ ~loopRemoval.active
  /\ timerRemaining > 0 /\ timerRemaining < timerDuration
  /\ lastTimerTick = clock
  /\ currentPiece # Null

(* ---------------------------------------------------------------------- *)
(* C14                                                                      *)
(* ---------------------------------------------------------------------- *)
\* the update() made at the time of the next state finds the countdown of a
\* running session at zero with a piece held
TimeoutDue ==
  /\ isRunning /\ ~isGameOver /\ ~loopRemoval.active
  /\ currentPiece # Null
  /\ timerRemaining <= Elapsed

\* C14: when update() finds the countdown at zero and the piece is an exact
\* match over k > 0 tiles with score >= 2k, the call schedules the paid batch
\* (the k footprint cells, each once, delta -2, cursor at 0), clears the current
\* piece, leaves grid, score and high scores alone and does not end the game.
C14_TimeoutPaysExactMatch ==
  [][(TimeoutDue /\ Affordable /\ Update)
       => /\ loopRemoval'.active
          /\ Range(loopRemoval'.cells) = Footprint
          /\ Len(loopRemoval'.cells) = Cardinality(Footprint)
          /\ Cardinality(Footprint) > 0
          /\ loopRemoval'.index = 0
          /\ loopRemoval'.pointsPerTile = -2
          /\ currentPiece' = Null
          /\ isRunning' /\ ~isGameOver'
          /\ grid' = grid /\ score' = score /\ highScores' = highScores]_vars

\* a paid batch just scheduled by the timeout: the countdown stands at zero, the
\* session runs on, the cells bought still hold their tiles
C14_Witness ==
  /\ loopRemoval.active /\ loopRemoval.pointsPerTile = -2 /\ loopRemoval.index = 0
  /\ timerRemaining = 0 /\ lastTimerTick = clock
  /\ isRunning /\ ~isGameOver /\ currentPiece = Null
  /\ score >= 2 * Len(loopRemoval.cells)
  /\ \A i \in 1..Len(loopRemoval.cells) :
        grid[loopRemoval.cells[i].y][loopRemoval.cells[i].x] # CELL_EMPTY

(* ---------------------------------------------------------------------- *)
(* C15                                                                      *)
(* ---------------------------------------------------------------------- *)
\* the step places the current piece at the timeout
PlacedAtTimeout ==
  LET w == WriteCells(grid, ShapeOf(shapeTable, currentPiece), currentPiece, 1, <<>>)
  IN /\ \A x \in 0..(BoardWidth - 1) : \A y \in 0..(BoardHeight - 1) :
           grid'[y][x] = IF Coord(x, y) \in Footprint
                           THEN PieceTile(Coord(x, y)) ELSE grid[y][x]
     /\ score' = score
     /\ placed' = placed + 1
     /\ isRunning' /\ ~isGameOver' /\ highScores' = highScores
     /\ timerRemaining' = timerDuration
     /\ lastTimerTick' = clock'
     /\ IF w.loopCells # <<>>
          THEN /\ currentPiece' = Null
               /\ loopRemoval'.active
               /\ loopRemoval'.pointsPerTile = 1
               /\ loopRemoval'.index = 0
               /\ Range(loopRemoval'.cells) = Range(w.loopCells)
               /\ Len(loopRemoval'.cells) = Cardinality(Range(w.loopCells))
          ELSE /\ currentPiece' # Null
               /\ loopRemoval' = loopRemoval

\* C15: when update() finds the countdown at zero and the piece is not an exact
\* match and does not collide, the call places the piece as placePiece does
\* (the footprint written, the score unchanged, a loop found scheduled as a +1
\* batch with the piece cleared, otherwise the next piece spawned), the game
\* does not end, and the countdown is at full duration when update returns.
\* (Violated: a piece dragged to an anchor between cells over empty cells is
\* not placed; the game ends, or update() ends in a TypeError.)
C15_TimeoutPlacesPiece ==
  [][(TimeoutDue /\ ~ExactMatch /\ ~Overlaps /\ Update) => PlacedAtTimeout]_vars

\* what holds instead: the piece is placed as claimed from an anchor on a
\* cell; from an anchor between two rows update() throws with the countdown
\* at zero, and from an anchor between two columns of a row the game ends
C15_TimeoutFromCell ==
  [][(TimeoutDue /\ ~ExactMatch /\ ~Overlaps /\ Update)
       => IF OnCell THEN PlacedAtTimeout /\ ~thrown'
          ELSE IF currentPiece.fy # 0
            THEN /\ thrown' /\ isRunning' /\ ~isGameOver' /\ timerRemaining' = 0
                 /\ grid' = grid /\ currentPiece' = currentPiece
            ELSE /\ ~thrown' /\ ~isRunning' /\ isGameOver'
                 /\ grid' = grid /\ currentPiece' = currentPiece]_vars

(* ---------------------------------------------------------------------- *)
(* C16                                                                      *)
(* ---------------------------------------------------------------------- *)
\* cells a and b are adjacent, a has a port toward b and b has the opposite port
Linked(g, a, b) ==
  \E d \in {DIR_UP, DIR_DOWN, DIR_LEFT, DIR_RIGHT} :
     /\ b = Coord(a.x + dirToDelta(d).dx, a.y + dirToDelta(d).dy)
     /\ InBounds(a.x, a.y) /\ InBounds(b.x, b.y)
     /\ g[a.y][a.x] # CELL_EMPTY /\ g[b.y][b.x] # CELL_EMPTY
     /\ d \in portsFor(g[a.y][a.x])
     /\ opposite(d) \in portsFor(g[b.y][b.x])

\* the four cells next to c
Adjacent(c) ==
  {Coord(c.x + dirToDelta(d).dx, c.y + dirToDelta(d).dy) :
     d \in {DIR_UP, DIR_DOWN, DIR_LEFT, DIR_RIGHT}}

\* the cells connected to c
Neighbours(g, c) == {b \in Adjacent(c) : Linked(g, c, b)}

\* the cells reached from the set R along connections that do not pass cell c
RECURSIVE ReachWithout(_, _, _)
ReachWithout(g, c, R) ==
  LET R2 == R \cup (UNION {Neighbours(g, a) : a \in R} \ {c})
  IN IF R2 = R THEN R ELSE ReachWithout(g, c, R2)

\* c lies on a closed cycle: leaving c by one connection one comes back to c
\* by another
OnCycle(g, c) ==
  \E n1, n2 \in Neighbours(g, c) : n1 # n2 /\ n2 \in ReachWithout(g, c, {n1})

\* the cell the latest query was made at
ProbeCell == Coord(probe.x, probe.y)

\* C16: detectLoop(x, y) on a non-empty cell returns a loop if and only if the
\* cell lies on a closed cycle of mutually connected tiles; it returns none for
\* an Empty start cell and for a cell on an open chain.
C16_LoopIffOnCycle ==
  probe # NoProbe =>
    IF grid[probe.y][probe.x] = CELL_EMPTY
      THEN probe.loop = <<>>
      ELSE (probe.loop # <<>>) <=> OnCycle(grid, ProbeCell)

\* a query that found the loop of six cells that fills the 3 x 2 window
C16_Witness ==
  /\ probe # NoProbe /\ Len(probe.loop) = 6
  /\ OnCycle(grid, ProbeCell)

\* a query made at a tile of an open chain of three or more tiles found none
C16_WitnessOpenChain ==
  /\ probe # NoProbe /\ probe.loop = <<>>
  /\ Cardinality(Neighbours(grid, ProbeCell)) = 2
  /\ ~OnCycle(grid, ProbeCell)

(* ---------------------------------------------------------------------- *)
(* C17                                                                      *)
(* ---------------------------------------------------------------------- *)
\* the first neighbour the start cell c is connected to, in the order Up, Down,
\* Left, Right
FirstNeighbour(g, c) ==
  LET d == CHOOSE d \in 0..3 :
             /\ Linked(g, c, Coord(c.x + dirToDelta(d).dx, c.y + dirToDelta(d).dy))
             /\ \A e \in 0..(d - 1) :
                   ~Linked(g, c, Coord(c.x + dirToDelta(e).dx, c.y + dirToDelta(e).dy))
  IN Coord(c.x + dirToDelta(d).dx, c.y + dirToDelta(d).dy)

\* C17: a sequence returned by detectLoop(x, y) begins with (x, y), continues
\* with the node that closes the loop (the start's other neighbour) and ends
\* with the first neighbour N of the start in the order Up, Down, Left, Right;
\* its cells are pairwise distinct, non-empty and in bounds, consecutive cells
\* and the last cell with the start are mutually connected, and they are
\* exactly the cells of the cycle through the start.
C17_LoopSequence ==
  (probe # NoProbe /\ probe.loop # <<>>) =>
    LET q == probe.loop
        n == Len(q)
        N == FirstNeighbour(grid, ProbeCell)
    IN /\ q[1] = ProbeCell
       /\ n >= 4
       /\ q[n] = N
       /\ q[2] # N /\ Linked(grid, q[2], ProbeCell)
       /\ \A i, j \in 1..n : i # j => q[i] # q[j]
       /\ \A i \in 1..n : InBounds(q[i].x, q[i].y) /\ grid[q[i].y][q[i].x] # CELL_EMPTY
       /\ \A i \in 1..(n - 1) : Linked(grid, q[i], q[i + 1])
       /\ Linked(grid, q[n], q[1])
       /\ Range(q) = {ProbeCell} \cup ReachWithout(grid, ProbeCell, {N})

\* a query at the top-left tile of the loop of six: the sequence runs from the
\* start over the tile to its right round to the tile below it
C17_Witness ==
  /\ probe # NoProbe /\ probe.x = 0 /\ probe.y = 0
  /\ Len(probe.loop) = 6
  /\ probe.loop[2] = Coord(1, 0)
  /\ probe.loop[6] = Coord(0, 1)

(* ---------------------------------------------------------------------- *)
(* C18                                                                      *)
(* ---------------------------------------------------------------------- *)
\* the four cells of the 2 x 2 square in the top-left corner
Square == Window(0, 0, 2, 2)

\* the grid that holds tl, tr, bl, br at (0,0), (1,0), (0,1), (1,1)
SquareGrid(tl, tr, bl, br) ==
  [EmptyGrid EXCEPT ![0][0] = tl, ![0][1] = tr, ![1][0] = bl, ![1][1] = br]

\* C18 as stated: on the grid holding LO at (0,0), RU at (1,0), LU at (0,1),
\* RO at (1,1), detectLoop at each of the four coordinates returns a non-empty
\* sequence covering all four cells.
C18_StatedSquareIsLoop ==
  (grid = SquareGrid(CELL_LO, CELL_RU, CELL_LU, CELL_RO) /\ probe # NoProbe
     /\ ProbeCell \in Square)
    => (probe.loop # <<>> /\ Range(probe.loop) = Square)

\* C18, amended: on the grid holding LO at (0,0), RO at (1,0), LU at (0,1),
\* RU at (1,1), detectLoop at each of the four coordinates returns a non-empty
\* sequence covering all four cells.
C18_SquareIsLoop ==
  (grid = SquareGrid(CELL_LO, CELL_RO, CELL_LU, CELL_RU) /\ probe # NoProbe
     /\ ProbeCell \in Square)
    => (probe.loop # <<>> /\ Range(probe.loop) = Square)

\* the query at (1,1) of the square LO, RO / LU, RU has been made
C18_Witness ==
  /\ grid = SquareGrid(CELL_LO, CELL_RO, CELL_LU, CELL_RU)
  /\ probe.x = 1 /\ probe.y = 1
  /\ Len(probe.loop) = 4

(* ---------------------------------------------------------------------- *)
(* C19                                                                      *)
(* ---------------------------------------------------------------------- *)
\* the tiles of the current piece lie within bounds over Empty cells only
FreeFootprint ==
  /\ currentPiece # Null
  /\ Footprint # {}
  /\ \A c \in Covered : InBounds(c.x, c.y) /\ grid[c.y][c.x] = CELL_EMPTY

\* the collision check is false and the step writes the footprint, and nothing
\* else, to the grid
FootprintWritten ==
  /\ ~Collides /\ ~CollisionThrows
  /\ placed' = placed + 1
  /\ \A x \in 0..(BoardWidth - 1) : \A y \in 0..(BoardHeight - 1) :
        grid'[y][x] = IF Coord(x, y) \in Footprint
                        THEN PieceTile(Coord(x, y)) ELSE grid[y][x]

\* C19: for every grid and every piece whose non-empty footprint lies within
\* bounds over Empty cells only, the collision check is false, and right after
\* placePiece every footprint cell holds the piece's tile for that position
\* while every cell outside the footprint is unchanged. (Violated: for a piece
\* dragged to an anchor between cells the collision check is true or throws,
\* and placePiece writes nothing.)
C19_FreeFootprintIsPlaced == [][(FreeFootprint /\ PlacePiece) => FootprintWritten]_vars

\* what holds instead: the footprint is written from every anchor on a cell
C19_FreeFootprintOnCell ==
  [][(FreeFootprint /\ PlacePiece)
       => IF OnCell THEN FootprintWritten ELSE grid' = grid /\ placed' = placed]_vars

(* ---------------------------------------------------------------------- *)
(* C20                                                                      *)
(* ---------------------------------------------------------------------- *)
\* the piece p moved to the anchors at which it hangs over an edge of the board
ShiftedOut(s, p) ==
  {q \in {[p EXCEPT !.x = -1], [p EXCEPT !.y = -1],
          [p EXCEPT !.x = BoardWidth - 1], [p EXCEPT !.y = BoardHeight - 1],
          [p EXCEPT !.x = BoardWidth - 2], [p EXCEPT !.x = -2]} :
     \E i \in 1..Len(Occupied(s)) :
        ~InBounds(q.x + Occupied(s)[i].cx, q.y + Occupied(s)[i].cy)}

\* the step schedules the paid removal of the footprint
PaidScheduled ==
  /\ loopRemoval'.active /\ loopRemoval'.pointsPerTile = -2 /\ loopRemoval'.index = 0
  /\ Range(loopRemoval'.cells) = Footprint
  /\ currentPiece' = Null
  /\ grid' = grid

\* C20: the exact-match test is true if and only if the piece has at least one
\* tile and every footprint cell is in bounds with the grid holding the same
\* kind there; a piece hanging over the edge is no exact match even where all
\* its cells on the board match; placePiece and the timeout of update decide
\* alike: with a score that pays, each schedules the paid removal exactly when
\* the piece is an exact match. (Violated: for a piece dragged to an anchor
\* between two rows the scan ends in a TypeError and the test is not made.)
C20_ExactMatchTest ==
  /\ [](currentPiece # Null =>
          LET s == ShapeOf(shapeTable, currentPiece)
              t == ExactMatchTest(grid, s, currentPiece)
          IN /\ ~t.threw
             /\ t.match = ExactMatch
             /\ \A q \in ShiftedOut(s, currentPiece) :
                   LET tq == ExactMatchTest(StampGrid(s, q.x, q.y), s, q)
                   IN ~tq.threw /\ ~tq.match)
  /\ [][(currentPiece # Null /\ ~loopRemoval.active
            /\ score >= 2 * Cardinality(Footprint) /\ PlacePiece)
          => (PaidScheduled <=> ExactMatch)]_vars
  /\ [][(TimeoutDue /\ score >= 2 * Cardinality(Footprint) /\ Update)
          => (PaidScheduled <=> ExactMatch)]_vars

\* what holds instead: the scan throws only for an anchor between two rows;
\* where it runs to its end the test is as claimed, and it does for every
\* anchor on a row; both call sites schedule the paid removal exactly for the
\* exact match
C20_ExactMatchTestOnRow ==
  /\ [](currentPiece # Null =>
          LET s == ShapeOf(shapeTable, currentPiece)
              t == ExactMatchTest(grid, s, currentPiece)
          IN /\ t.threw => (currentPiece.fy # 0 /\ ~ExactMatch)
             /\ ~t.threw => t.match = ExactMatch
             /\ currentPiece.fy = 0 =>
                   /\ ~t.threw
                   /\ \A q \in ShiftedOut(s, currentPiece) :
                         LET tq == ExactMatchTest(StampGrid(s, q.x, q.y), s, q)
                         IN ~tq.threw /\ ~tq.match)
  /\ [][(currentPiece # Null /\ ~loopRemoval.active
            /\ score >= 2 * Cardinality(Footprint) /\ PlacePiece)
          => (PaidScheduled <=> ExactMatch)]_vars
  /\ [][(TimeoutDue /\ score >= 2 * Cardinality(Footprint) /\ Update)
          => (PaidScheduled <=> ExactMatch)]_vars

(* ---------------------------------------------------------------------- *)
(* C21                                                                      *)
(* ---------------------------------------------------------------------- *)
\* the current piece with its anchor moved by (dx, dy)
Shifted(dx, dy) == [currentPiece EXCEPT !.x = @ + dx, !.y = @ + dy]

\* the step leaves everything but the piece alone
OnlyPieceMoves ==
  UNCHANGED <<grid, shapeTable, score, highScores, isRunning, isGameOver,
              timerRemaining, lastTimerTick, loopRemoval>>

\* C21: movePiece(dx, dy) moves the anchor by exactly (dx, dy) when every
\* tile of the moved piece lies inside the grid and otherwise leaves the piece
\* as it is; the rotation, the grid, the score, the countdown and the batch are
\* untouched in both cases. (Violated: from an anchor between two cells, where
\* a drag leaves the piece, the move is made although the moved piece reaches
\* half a cell over the edge.)
C21_MoveWithinBounds ==
  [][(currentPiece # Null /\ MoveFree)
       => /\ \E d \in MoveSet :
                currentPiece' =
                  IF Fits(shapeTable, Shifted(d[1], d[2]))
                    THEN Shifted(d[1], d[2]) ELSE currentPiece
          /\ OnlyPieceMoves]_vars

\* what holds instead: the move is made when the cells at the whole part of
\* the moved anchor lie inside the grid, which for an anchor on a cell is the
\* claim
C21_MoveWithinBoundsFromCell ==
  [][(currentPiece # Null /\ MoveFree)
       => /\ \E d \in MoveSet :
                currentPiece' =
                  IF \A c \in Footprint : InBounds(c.x + d[1], c.y + d[2])
                    THEN Shifted(d[1], d[2]) ELSE currentPiece
          /\ OnCell => (OnCell' /\ Fits(shapeTable, currentPiece'))
          /\ OnlyPieceMoves]_vars

(* ---------------------------------------------------------------------- *)
(* C22                                                                      *)
(* ---------------------------------------------------------------------- *)
\* C22: after every rotatePiece call every tile of the active shape at the
\* resulting anchor lies inside the grid, or else the call failed and rotation
\* index and anchor are the pre-rotation values.
C22_RotationStaysInside ==
  [][(currentPiece # Null /\ RotatePiece)
       => \/ Footprint' # {} /\ Fits(shapeTable', currentPiece')
          \/ currentPiece' = currentPiece]_vars

\* the single-variant piece rotated once at the right edge: its matrix is now
\* two wide and three high and its tiles are inside the grid
C22_Witness ==
  /\ currentPiece # Null /\ currentPiece.shapes = 8
  /\ Len(ShapeOf(shapeTable, currentPiece)) = 2
  /\ currentPiece.x = BoardWidth - 2
  /\ currentPiece.y = BoardHeight - 3

(* ---------------------------------------------------------------------- *)
(* C23                                                                      *)
(* ---------------------------------------------------------------------- *)
\* the columns and rows of matrix s that hold a tile
TileCols(s) == {i \in 0..(Len(s) - 1) : \E j \in 0..(Len(s[1]) - 1) : At(s, i, j) # CELL_EMPTY}
TileRows(s) == {j \in 0..(Len(s[1]) - 1) : \E i \in 0..(Len(s) - 1) : At(s, i, j) # CELL_EMPTY}

\* v clamped into lo..hi
Clamp(v, lo, hi) == Min(Max(v, lo), hi)

\* C23: on the 10 x 20 board rotatePiece never reverts: the rotation index
\* moves on to the next variant (it stays 0 for a single variant, whose matrix
\* is rotated), and the anchor is the pre-rotation anchor clamped into the range
\* that keeps the tiles of the new shape inside the grid (kick offset 0, 0);
\* the anchor is compared in units of 1/Den of a cell.
C23_RotationNeverReverts ==
  [][(currentPiece # Null /\ RotatePiece)
       => LET n == Len(ShapesOf(shapeTable, currentPiece))
              s == ShapeOf(shapeTable', currentPiece')
          IN /\ currentPiece'.rotation = (currentPiece.rotation + 1) % n
             /\ n > 1 => shapeTable' = shapeTable
             /\ n = 1 => ShapeOf(shapeTable', currentPiece') # ShapeOf(shapeTable, currentPiece)
             /\ FineX(currentPiece') =
                  Clamp(FineX(currentPiece), (0 - Least(TileCols(s))) * Den,
                        (BoardWidth - 1 - Greatest(TileCols(s))) * Den)
             /\ FineY(currentPiece') =
                  Clamp(FineY(currentPiece), (0 - Least(TileRows(s))) * Den,
                        (BoardHeight - 1 - Greatest(TileRows(s))) * Den)]_vars

\* the single-variant piece rotated twice: its matrix is three wide again but
\* upside down, the rotation index is 0, the anchor is in range
C23_Witness ==
  /\ currentPiece # Null /\ currentPiece.shapes = 8 /\ currentPiece.rotation = 0
  /\ Len(ShapeOf(shapeTable, currentPiece)) = 3
  /\ shapeTable # PIECE_SHAPES
  /\ currentPiece.x = BoardWidth - 3 /\ currentPiece.y = BoardHeight - 2

(* ---------------------------------------------------------------------- *)
(* C24                                                                      *)
(* ---------------------------------------------------------------------- *)
\* the Game object with another grid
OnGrid(g) == [Cur EXCEPT !.grid = g]

\* C24: the outcome of movePiece and of rotatePiece does not depend on the
\* grid: on the session that differs only in the tiles on its grid, every move
\* and the rotation leave the same piece (anchor, rotation, shape) as on this
\* one, so a piece can hover over tiles.
C24_GridIndependent ==
  \A g \in MoveGrids :
     /\ \A d \in MoveSet :
           movePiece(OnGrid(g), d[1], d[2]).currentPiece = movePiece(Cur, d[1], d[2]).currentPiece
     /\ rotatePiece(OnGrid(g)).currentPiece = rotatePiece(Cur).currentPiece
     /\ rotatePiece(OnGrid(g)).shapeTable = rotatePiece(Cur).shapeTable

\* a piece moved and turned over a full grid: the single-variant piece, its
\* matrix rotated, hovers over tiles at an anchor no session begins with
C24_Witness ==
  /\ grid = FullGrid
  /\ currentPiece # Null /\ currentPiece.shapes = 8
  /\ Len(ShapeOf(shapeTable, currentPiece)) = 2
  /\ currentPiece.x = MidX + 2 /\ currentPiece.y = MidY + 5
  /\ Collides

(* ---------------------------------------------------------------------- *)
(* C25                                                                      *)
(* ---------------------------------------------------------------------- *)
\* C25: in every state the high-score list is in descending order and has at
\* most 10 entries; a game over enters the score into the list unless 10
\* entries that are higher or equal fill it, and then the list is unchanged;
\* only a game over changes the list, start() keeps it.
C25_HighScoreList ==
  /\ [](/\ Len(highScores) <= 10
        /\ \A i \in 1..(Len(highScores) - 1) : highScores[i] >= highScores[i + 1])
  /\ [][(~isGameOver /\ isGameOver')
          => IF Len(highScores) = 10 /\ \A i \in 1..10 : highScores[i] >= score
               THEN highScores' = highScores
               ELSE /\ score \in Range(highScores')
                    /\ Len(highScores') = Min(Len(highScores) + 1, 10)]_vars
  /\ [][(highScores' # highScores) => (~isGameOver /\ isGameOver' /\ Update)]_vars
  /\ [][Start => highScores' = highScores]_vars

\* a game over at a score between the entries of a full list: the score is in
\* the list, which still has 10 entries, the lowest of before has gone
C25_Witness ==
  /\ isGameOver /\ ~isRunning
  /\ Len(highScores) = 10
  /\ score \in Range(highScores)
  /\ highScores[1] > score /\ score > highScores[10]

(* ---------------------------------------------------------------------- *)
(* C26                                                                      *)
(* ---------------------------------------------------------------------- *)
\* C26: after start(), called in any state, every grid cell is Empty, the score
\* is 0, the countdown is at its full duration, isGameOver is false, running
\* is true and a current piece exists. Stated of the call itself, made in the
\* state at hand with each of the draws followed.
C26_StartResetsSession ==
  \A sp \in FollowedDraws(shapeTable) :
     LET r == start(Cur, sp, clock + skew)
     IN /\ AllEmpty(r.grid)
        /\ r.score = 0
        /\ r.timerRemaining = timerDuration
        /\ ~r.isGameOver /\ r.isRunning
        /\ r.currentPiece # Null

\* a session started after the game over of the one before, which entered its
\* score as the first into the list: empty grid, score 0, full countdown, a
\* piece held
C26_Witness ==
  /\ starts = 2 /\ Len(highScores) = 1 /\ highScores[1] > 0
  /\ AllEmpty(grid) /\ score = 0
  /\ isRunning /\ ~isGameOver
  /\ timerRemaining = timerDuration /\ lastTimerTick = clock
  /\ currentPiece # Null /\ placed = MaxCost - 3

(* ---------------------------------------------------------------------- *)
(* C27                                                                      *)
(* ---------------------------------------------------------------------- *)
\* the current piece has exactly one rotation variant
SingleVariant == currentPiece # Null /\ Len(ShapesOf(shapeTable, currentPiece)) = 1

\* C27: rotating a piece with exactly one rotation variant keeps the rotation
\* index at 0 and replaces the shape by its clockwise quarter turn: the new
\* width is the old height, the new height the old width, and the tile at old
\* column x, row y is at column (oldHeight - 1 - y), row x of the new shape.
C27_SingleVariantClockwise ==
  [][(SingleVariant /\ RotatePiece)
       => LET old == ShapeOf(shapeTable, currentPiece)
              new == ShapeOf(shapeTable', currentPiece')
              W == Len(old)
              H == Len(old[1])
          IN /\ currentPiece'.rotation = 0
             /\ Len(new) = H /\ Len(new[1]) = W
             /\ \A x \in 0..(W - 1) : \A y \in 0..(H - 1) :
                   At(new, H - 1 - y, x) = At(old, x, y)]_vars

\* what the rotation of a single variant does: the quarter turn the other way
\* round, the tile at old column x, row y is at column y, row
\* (oldWidth - 1 - x) of the new shape
C27_SingleVariantCounterClockwise ==
  [][(SingleVariant /\ RotatePiece)
       => LET old == ShapeOf(shapeTable, currentPiece)
              new == ShapeOf(shapeTable', currentPiece')
              W == Len(old)
              H == Len(old[1])
          IN /\ currentPiece'.rotation = 0
             /\ Len(new) = H /\ Len(new[1]) = W
             /\ \A x \in 0..(W - 1) : \A y \in 0..(H - 1) :
                   At(new, y, W - 1 - x) = At(old, x, y)]_vars

(* ---------------------------------------------------------------------- *)
(* C28                                                                      *)
(* ---------------------------------------------------------------------- *)
\* the cells of the closed cycle of grid g through cell c, none if c lies on
\* no cycle
CycleOf(g, c) ==
  IF OnCycle(g, c) THEN {c} \cup ReachWithout(g, c, Neighbours(g, c)) ELSE {}

\* C28: a normal placement by placePiece schedules a removal batch if and only
\* if, in the grid with all tiles of the piece written, one of the piece's
\* cells lies on a closed cycle, and the cells scheduled (each once, delta +1)
\* are the union of the cycles through the piece's cells, although detectLoop
\* is asked for each cell before the later cells are written.
C28_BatchIsUnionOfCycles ==
  [][(currentPiece # Null /\ ~loopRemoval.active /\ ~Overlaps /\ PlacePiece)
       => LET cyc == UNION {CycleOf(grid', c) : c \in Footprint}
          IN /\ loopRemoval'.active <=> cyc # {}
             /\ loopRemoval'.active =>
                   /\ Range(loopRemoval'.cells) = cyc
                   /\ Len(loopRemoval'.cells) = Cardinality(cyc)
                   /\ loopRemoval'.index = 0
                   /\ loopRemoval'.pointsPerTile = 1]_vars

\* the piece that is a closed loop of four tiles by itself placed in the
\* middle of the board: the loop is found at the last of its cells written
\* and all four are scheduled
C28_Witness ==
  /\ loopRemoval.active /\ loopRemoval.pointsPerTile = 1 /\ loopRemoval.index = 0
  /\ Range(loopRemoval.cells) = Window(MidX, MidY, 2, 2)
  /\ \A c \in Window(MidX, MidY, 2, 2) : OnCycle(grid, c)
  /\ currentPiece = Null /\ placed = MaxCost - 1

(* ---------------------------------------------------------------------- *)
(* C29                                                                      *)
(* ---------------------------------------------------------------------- *)
\* a batch that runs with the piece hidden, as placePiece leaves it; only
\* start() puts a piece next to an active batch (C1)
BatchRunning == loopRemoval.active /\ currentPiece = Null

\* C29: every scheduled removal batch finishes. While update keeps being
\* called (gameLoop has its frame requested, and the frames come) with
\* timestamps at least 150 ms apart, a batch of N cells that is
\* not disturbed by start() is deactivated by the step that clears its N-th
\* cell, N clearing steps after it was scheduled, and that step spawns the
\* next piece; the move, rotate and place calls made meanwhile change
\* nothing, and every update that comes 150 ms after the last step clears a
\* cell.
C29_BatchFinishes ==
  /\ (BatchRunning /\ framesRequested > 0) ~> currentPiece # Null
  /\ [][(BatchRunning /\ starts' = starts)
          => LET N == Len(loopRemoval.cells)
             IN /\ loopRemoval'.cells = loopRemoval.cells
                /\ Len(lrTrace.cleared) = loopRemoval.index
                /\ clock' - clock >= interval => loopRemoval'.index = loopRemoval.index + 1
                /\ \/ /\ BatchRunning'
                      /\ loopRemoval'.index \in {loopRemoval.index, loopRemoval.index + 1}
                      /\ loopRemoval'.index < N
                   \/ /\ ~loopRemoval'.active
                      /\ loopRemoval.index = N - 1
                      /\ loopRemoval'.index = N
                      /\ currentPiece' # Null
                      /\ Update]_vars
  /\ [][(BatchRunning /\ (MovePiece \/ RotatePiece \/ PlacePiece)) => UNCHANGED vars]_vars

\* a loop of four tiles scheduled at time 0 has been cleared by four update
\* calls interval apart, the last of which spawned the next piece
C29_Witness ==
  /\ ~loopRemoval.active /\ currentPiece # Null
  /\ Len(loopRemoval.cells) = 4 /\ loopRemoval.index = 4
  /\ clock = 4 * interval /\ loopRemoval.lastTime = clock
  /\ placed = 2 /\ starts = 1 /\ AllEmpty(grid)

\* the other case, which the premise of C29 leaves out: gameLoop has ended in
\* a TypeError of update (a timeout with the piece dragged between rows), the
\* handlers have gone on and a placement has scheduled a batch; no frame is
\* requested, update is not called again and the batch stays as it is
BatchWithoutLoop ==
  /\ framesRequested = 0 /\ starts = 1
  /\ loopRemoval.active /\ currentPiece = Null

(* ---------------------------------------------------------------------- *)
(* C30                                                                      *)
(* ---------------------------------------------------------------------- *)
\* the cells that hold a tile before the step and are Empty after it
ClearedByStep ==
  {c \in Window(0, 0, BoardWidth, BoardHeight) :
     grid[c.y][c.x] # CELL_EMPTY /\ grid'[c.y][c.x] = CELL_EMPTY}

\* C30: one update call clears at most one tile and advances the cursor of
\* the batch by at most one, however long after the last step it comes; a
\* tile is cleared only by a clearing step, the k-th clearing step of a batch
\* clears the k-th scheduled cell, and a clearing step comes at least 150 ms
\* after the step before it and leaves its own timestamp for the next.
C30_OneStepPerUpdate ==
  /\ [](loopRemoval.active =>
          lrTrace.cleared = SubSeq(loopRemoval.cells, 1, loopRemoval.index))
  /\ [][Update
          => LET step == loopRemoval.active /\ loopRemoval'.index # loopRemoval.index
             IN /\ Cardinality(ClearedByStep) <= 1
                /\ loopRemoval'.index <= loopRemoval.index + 1
                /\ ClearedByStep # {} => step
                /\ step =>
                     /\ loopRemoval'.index = loopRemoval.index + 1
                     /\ ClearedByStep \subseteq {loopRemoval.cells[loopRemoval.index + 1]}
                     /\ grid'[loopRemoval.cells[loopRemoval.index + 1].y]
                              [loopRemoval.cells[loopRemoval.index + 1].x] = CELL_EMPTY
                     /\ clock' - loopRemoval.lastTime >= interval
                     /\ loopRemoval'.lastTime = clock']_vars

\* a loop of four tiles scheduled at time 0 and an update call a whole
\* countdown later: one tile is cleared, three are left
C30_Witness ==
  /\ loopRemoval.active /\ Len(loopRemoval.cells) = 4 /\ loopRemoval.index = 1
  /\ clock = timerDuration /\ loopRemoval.lastTime = clock
  /\ grid[loopRemoval.cells[1].y][loopRemoval.cells[1].x] = CELL_EMPTY
  /\ \A i \in 2..4 : grid[loopRemoval.cells[i].y][loopRemoval.cells[i].x] # CELL_EMPTY

(* ---------------------------------------------------------------------- *)
(* C31                                                                      *)
(* ---------------------------------------------------------------------- *)
\* the Game object after k calls of rotatePiece
RECURSIVE Rotations(_, _)
Rotations(S, k) == IF k = 0 THEN S ELSE rotatePiece(Rotations(S, k - 1))

\* the shape table and piece after k calls of Piece.rotate, the anchor kept
RECURSIVE Turns(_, _, _)
Turns(table, p, k) ==
  IF k = 0 THEN [piece |-> p, table |-> table]
  ELSE LET t == Turns(table, p, k - 1) IN PieceRotate(t.table, t.piece)

\* none of the next four rotations needs its anchor clamped
NoClampNeeded ==
  \A k \in 1..4 :
     LET t == Turns(shapeTable, currentPiece, k) IN Fits(t.table, t.piece)

\* C31: a rotate of a piece with n > 1 variants sets the rotation index to
\* (index + 1) mod n and leaves the shape table alone; for every shape four
\* rotatePiece calls restore the rotation index and the shape table (so the
\* active matrix), and the anchor too where none of the four needs clamping,
\* so that three calls (rotate left) and one more (rotate right) are the
\* identity.
C31_FourRotationsRestore ==
  /\ [](currentPiece # Null =>
          LET n == Len(ShapesOf(shapeTable, currentPiece))
              r1 == Rotations(Cur, 1)
              r4 == rotatePiece(Rotations(Cur, 3))
          IN /\ n \in {1, 2, 4}
             /\ n > 1 => /\ r1.currentPiece.rotation = (currentPiece.rotation + 1) % n
                         /\ r1.shapeTable = shapeTable
             /\ r4.currentPiece.rotation = currentPiece.rotation
             /\ r4.shapeTable = shapeTable
             /\ NoClampNeeded => /\ r4 = Cur
                                 /\ onRotateRight(onRotateLeft(Cur)) = Cur)
  /\ [][(currentPiece # Null /\ Len(ShapesOf(shapeTable, currentPiece)) > 1 /\ RotatePiece)
         => /\ currentPiece'.rotation =
                  (currentPiece.rotation + 1) % Len(ShapesOf(shapeTable, currentPiece))
            /\ shapeTable' = shapeTable]_vars

\* the single-variant piece in the middle of the board after one rotation,
\* its matrix two wide: three more calls make it three wide and upside down
\* and the fourth brings this state back
C31_Witness ==
  /\ currentPiece # Null /\ currentPiece.shapes = 8
  /\ currentPiece.x = MidX /\ currentPiece.y = MidY
  /\ Len(ShapeOf(shapeTable, currentPiece)) = 2
  /\ NoClampNeeded
  /\ Rotations(Cur, 3).shapeTable # shapeTable
  /\ Rotations(Cur, 4) = Cur

(* ---------------------------------------------------------------------- *)
(* C32                                                                      *)
(* ---------------------------------------------------------------------- *)
\* C32: the score is never negative, whatever start, movePiece, rotatePiece,
\* placePiece and update calls are made. (Violated: start() sets the score to
\* 0 and leaves a paid batch running, whose remaining steps subtract 2 each.)
C32_ScoreNeverNegative == score >= 0

(* ---------------------------------------------------------------------- *)
(* C33                                                                      *)
(* ---------------------------------------------------------------------- *)
\* C33: whenever the session is running, not over, and no batch is active, a
\* current piece exists; so the game never ends through the timeout branch
\* for a missing piece: every step that ends the game is an update that finds
\* the countdown at zero with a piece held.
C33_PieceWhileRunning ==
  /\ []((isRunning /\ ~isGameOver /\ ~loopRemoval.active) => currentPiece # Null)
  /\ [][(~isGameOver /\ isGameOver') => (TimeoutDue /\ Update)]_vars

\* a running session in which the countdown ran out and update placed the
\* piece where it hovered: the next piece is there at once
C33_Witness ==
  /\ isRunning /\ ~isGameOver /\ ~loopRemoval.active
  /\ currentPiece # Null
  /\ placed = 1 /\ ~AllEmpty(grid)
  /\ clock = 2 * timerDuration /\ lastTimerTick = clock
  /\ timerRemaining = timerDuration

(* ---------------------------------------------------------------------- *)
(* C34                                                                      *)
(* ---------------------------------------------------------------------- *)
\* C34: whenever a current piece exists, every non-empty cell of its active
\* shape at its anchor lies inside the grid: no spawn, move or rotation, of
\* any shape in any rotation, leaves a piece that reaches outside. (Violated:
\* movePiece moves a piece that a drag has left half a cell from the edge to
\* where it reaches half a cell over the edge.)
C34_PieceInsideGrid == currentPiece # Null => Fits(shapeTable, currentPiece)

\* what holds instead: a piece whose anchor lies on a cell is inside the grid
C34_PieceOnCellInsideGrid ==
  (currentPiece # Null /\ OnCell) => Fits(shapeTable, currentPiece)

(* ---------------------------------------------------------------------- *)
(* C35                                                                      *)
(* ---------------------------------------------------------------------- *)
\* the session is running, not over, and no batch is active: update counts down
CountsDown == isRunning /\ ~isGameOver /\ ~loopRemoval.active

\* C35: the countdown stays within 0 and the full duration, only an update
\* call made while running, not over and with no batch active lowers it, and
\* such a call leaves it at the old value less the time since the reference
\* tick, floored at zero (from where the timeout handling takes over, which
\* leaves it at zero or resets it to the full duration). (Violated: a
\* reference tick of 0 is taken for no tick and nothing is subtracted.)
C35_CountdownFollowsClock ==
  /\ [](0 <= timerRemaining /\ timerRemaining <= timerDuration)
  /\ [][timerRemaining' < timerRemaining => (CountsDown /\ Update)]_vars
  /\ [][(CountsDown /\ Update)
          => LET left == timerRemaining - (clock' - lastTimerTick)
             IN IF left > 0 THEN timerRemaining' = left
                ELSE timerRemaining' \in {0, timerDuration}]_vars

\* what holds instead: the time subtracted is Elapsed, which is the time since
\* the reference tick unless that tick is 0, and then nothing (also for the
\* update calls during which the clock runs on)
C35_CountdownFollowsTick ==
  /\ [](0 <= timerRemaining /\ timerRemaining <= timerDuration)
  /\ [][timerRemaining' < timerRemaining => (CountsDown /\ (Update \/ UpdateSkew))]_vars
  /\ [][(CountsDown /\ (Update \/ UpdateSkew))
          => LET left == timerRemaining - Elapsed
             IN IF left > 0 THEN timerRemaining' = left
                ELSE timerRemaining' \in {0, timerDuration}]_vars

(* ---------------------------------------------------------------------- *)
(* C36                                                                      *)
(* ---------------------------------------------------------------------- *)
\* C36: isRunning and isGameOver are never both true; before the first
\* start() both are false and from then on exactly one of them is true:
\* isRunning from a start() until the game over, which sets isGameOver, and
\* isGameOver from there until the next start().
C36_RunningXorGameOver ==
  /\ [](~(isRunning /\ isGameOver))
  /\ [](IF starts = 0 THEN ~isRunning /\ ~isGameOver ELSE isRunning # isGameOver)
  /\ [][(isRunning /\ ~isRunning') => (isGameOver' /\ starts' = starts)]_vars
  /\ [][(isGameOver /\ ~isGameOver') => (isRunning' /\ starts' = starts + 1)]_vars

\* a session started after a game over: the score of the session before is in
\* the list, the new session is running and not over
C36_Witness ==
  /\ isRunning /\ ~isGameOver
  /\ starts = 2 /\ score = 0 /\ AllEmpty(grid)
  /\ 8 \in Range(highScores)
  /\ currentPiece # Null /\ ~loopRemoval.active

(* ---------------------------------------------------------------------- *)
(* C37                                                                      *)
(* ---------------------------------------------------------------------- *)
\* C37: between two start() calls the game ends at most once: the high-score
\* list changes only in the update step that ends the session and never while
\* the game is over, and an update call made after the game over changes
\* neither the list nor the countdown. (Violated: a batch scheduled by a
\* placePiece made after the game over is animated by update, whose last
\* step spawns a piece and resets the countdown.)
C37_OneGameOverPerSession ==
  /\ [][highScores' # highScores
          => (~isGameOver /\ isGameOver' /\ starts' = starts /\ Update)]_vars
  /\ [][isGameOver => highScores' = highScores]_vars
  /\ [][(isGameOver /\ Update) => timerRemaining' = timerRemaining]_vars

\* what holds instead: the list is as claimed, and an update call made after
\* the game over changes the countdown only when it completes a batch
C37_OneEntryPerSession ==
  /\ [][highScores' # highScores
          => (~isGameOver /\ isGameOver' /\ starts' = starts /\ Update)]_vars
  /\ [][isGameOver => highScores' = highScores]_vars
  /\ [][(isGameOver /\ ~LastDue /\ Update) => timerRemaining' = timerRemaining]_vars

(* ---------------------------------------------------------------------- *)
(* C38                                                                      *)
(* ---------------------------------------------------------------------- *)
\* C38: rotations never change the shape table used by later spawns: the
\* piece spawned by start(), of whatever shape, has the variants that were
\* authored. (Violated: Piece.rotate on the single-variant shape writes the
\* turned matrix into the table entry the piece shares.)
C38_SpawnsAuthoredShapes ==
  [][starts' = starts + 1
      => ShapesOf(shapeTable', currentPiece') = PIECE_SHAPES[currentPiece'.shapes + 1]]_vars

\* what holds instead: rotations leave every entry of the table alone except
\* that of a single-variant piece held, and four of them restore it
C38_MultiVariantShapesKept ==
  /\ [][RotatePiece => (\A i \in 1..Len(PIECE_SHAPES) :
                          Len(PIECE_SHAPES[i]) > 1 => shapeTable'[i] = shapeTable[i])]_vars
  /\ [](\A i \in 1..Len(PIECE_SHAPES) : Len(PIECE_SHAPES[i]) > 1 => shapeTable[i] = PIECE_SHAPES[i])

(* ---------------------------------------------------------------------- *)
(* C39                                                                      *)
(* ---------------------------------------------------------------------- *)
\* C39: an active batch has at least one cell, its cells are pairwise distinct
\* and inside the grid, its cursor is at least 0 and less than the number of
\* cells, and its delta per tile is +1 or -2; with no batch active the delta
\* per tile is +1.
C39_BatchWellFormed ==
  IF loopRemoval.active
    THEN /\ Len(loopRemoval.cells) > 0
         /\ \A i, j \in 1..Len(loopRemoval.cells) :
               i # j => loopRemoval.cells[i] # loopRemoval.cells[j]
         /\ \A i \in 1..Len(loopRemoval.cells) :
               InBounds(loopRemoval.cells[i].x, loopRemoval.cells[i].y)
         /\ 0 <= loopRemoval.index /\ loopRemoval.index < Len(loopRemoval.cells)
         /\ loopRemoval.pointsPerTile \in {1, -2}
    ELSE loopRemoval.pointsPerTile = 1

\* a paid batch has run to its end: no batch is active, the cursor stands
\* behind the last of its cells and the delta per tile is back at +1
C39_Witness ==
  /\ ~loopRemoval.active /\ loopRemoval.pointsPerTile = 1
  /\ Len(loopRemoval.cells) = 2 /\ loopRemoval.index = 2
  /\ currentPiece # Null /\ loopRemoval.lastTime = clock

====
